---- MODULE Spec2Model ----
(***************************************************************************)
(* cc-profiles: profile registry (core/profile), link manager              *)
(* (core/symlinks), launcher generator (core/shell) and the validator      *)
(* (utils/validation), over an explicit model of the part of the file      *)
(* system under the user's home directory that they read and write.        *)
(*                                                                         *)
(* Strings are sequences of one-character strings, so that the template    *)
(* `.claude-${name}`, path.join's normalisation and the validator's        *)
(* pattern are computed character by character.  A path is the sequence of *)
(* its components below the file system root.                              *)
(***************************************************************************)
EXTENDS Integers, Sequences, FiniteSets, TLC

VARIABLES
    fs,        \* the file system: a function from the existing paths to nodes
    clock,     \* the wall clock read by new Date()
    shellEnv,  \* process.env.SHELL
    last,      \* the operation that ran last and how it ended
    calls      \* the invocations of the tool in flight, one per process

vars == <<fs, clock, shellEnv, last, calls>>

----------------------------------------------------------------------------
(* Bounds of the model *)

\* the number of shared items (in the order of ItemOrder) whose presence the
\* environment varies in the shared root
MaxItems == 2

\* the largest value of the wall clock
MaxClock == 1

\* the validator is given every string of up to this many characters over
\* its alphabet
MaxNameLen == 3

\* a shell startup file holds, to begin with, up to this many pieces of text
MaxRc == 2

\* the user adds up to this many pieces to a startup file
MaxAppend == 1

----------------------------------------------------------------------------
(* String literals *)

lowerLetters == <<"a", "b", "c", "d", "e", "f", "g", "h", "i", "j", "k", "l", "m", "n", "o", "p", "q", "r", "s", "t", "u", "v", "w", "x", "y", "z">>
upperLetters == <<"A", "B", "C", "D", "E", "F", "G", "H", "I", "J", "K", "L", "M", "N", "O", "P", "Q", "R", "S", "T", "U", "V", "W", "X", "Y", "Z">>
digitChars == <<"0", "1", "2", "3", "4", "5", "6", "7", "8", "9">>

Range(s) == {s[i] : i \in 1..Len(s)}

\* String.prototype.toLowerCase, character by character
toLowerChar(c) ==
    IF c \in Range(upperLetters)
    THEN lowerLetters[CHOOSE i \in 1..Len(upperLetters) : upperLetters[i] = c]
    ELSE c

toLowerCase(s) == [i \in 1..Len(s) |-> toLowerChar(s[i])]

----------------------------------------------------------------------------
(* utils/validation *)

MAX_PROFILE_NAME_LENGTH == 32

\* /^[a-z][a-z0-9-]*$/
PROFILE_NAME_PATTERN(s) ==
    /\ Len(s) >= 1
    /\ s[1] \in Range(lowerLetters)
    /\ \A i \in 2..Len(s) : s[i] \in Range(lowerLetters) \cup Range(digitChars) \cup {"-"}

RESERVED_NAMES == <<
    <<"c", "l", "a", "u", "d", "e">>,
    <<"d", "e", "f", "a", "u", "l", "t">>,
    <<"m", "a", "i", "n">>,
    <<"p", "r", "i", "m", "a", "r", "y">> >>

\* a variant that takes the limit as exclusive
isValidProfileNameExclusive(name) ==
    IF Len(name) = 0 THEN FALSE
    ELSE IF Len(name) >= MAX_PROFILE_NAME_LENGTH THEN FALSE
    ELSE IF ~PROFILE_NAME_PATTERN(name) THEN FALSE
    ELSE IF toLowerCase(name) \in Range(RESERVED_NAMES) THEN FALSE
    ELSE TRUE

isValidProfileName(name) ==
    IF Len(name) = 0 THEN FALSE
    ELSE IF Len(name) > MAX_PROFILE_NAME_LENGTH THEN FALSE
    ELSE IF ~PROFILE_NAME_PATTERN(name) THEN FALSE
    ELSE IF toLowerCase(name) \in Range(RESERVED_NAMES) THEN FALSE
    ELSE TRUE

\* a message of the validator: a template of the source with ${...}
\* replaced by arg where the template has %
Message(tpl, arg) == [tpl |-> tpl, arg |-> arg]

\* the return value null
NoMessage == Message("null", <<>>)

\* a number from 10 to 99 in a template literal
decimal(n) == <<digitChars[(n \div 10) + 1], digitChars[(n % 10) + 1]>>

\* /^[a-z]/
startsWithLowercase(s) == Len(s) >= 1 /\ s[1] \in Range(lowerLetters)

\* a variant that tests the pattern before the length
getProfileNameErrorPatternFirst(name) ==
    IF Len(name) = 0 THEN Message("Profile name is required", <<>>)
    ELSE IF ~startsWithLowercase(name)
    THEN Message("Name must start with a lowercase letter", <<>>)
    ELSE IF ~PROFILE_NAME_PATTERN(name)
    THEN Message("Use only lowercase letters, numbers, and hyphens", <<>>)
    ELSE IF Len(name) > MAX_PROFILE_NAME_LENGTH
    THEN Message("Name must be % characters or less", decimal(MAX_PROFILE_NAME_LENGTH))
    ELSE IF toLowerCase(name) \in Range(RESERVED_NAMES)
    THEN Message("\"%\" is a reserved name", name)
    ELSE NoMessage

getProfileNameError(name) ==
    IF Len(name) = 0 THEN Message("Profile name is required", <<>>)
    ELSE IF Len(name) > MAX_PROFILE_NAME_LENGTH
    THEN Message("Name must be % characters or less", decimal(MAX_PROFILE_NAME_LENGTH))
    ELSE IF ~startsWithLowercase(name)
    THEN Message("Name must start with a lowercase letter", <<>>)
    ELSE IF ~PROFILE_NAME_PATTERN(name)
    THEN Message("Use only lowercase letters, numbers, and hyphens", <<>>)
    ELSE IF toLowerCase(name) \in Range(RESERVED_NAMES)
    THEN Message("\"%\" is a reserved name", name)
    ELSE NoMessage

----------------------------------------------------------------------------
(* node:path join: concatenate, split on "/", drop "" and ".", resolve ".." *)

RECURSIVE SplitRec(_, _, _)
SplitRec(s, cur, out) ==
    IF s = <<>> THEN Append(out, cur)
    ELSE IF Head(s) = "/" THEN SplitRec(Tail(s), <<>>, Append(out, cur))
    ELSE SplitRec(Tail(s), Append(cur, Head(s)), out)

RECURSIVE NormalizeRec(_, _)
NormalizeRec(comps, stack) ==
    IF comps = <<>> THEN stack
    ELSE LET c == Head(comps) IN
         IF c = <<>> \/ c = <<".">> THEN NormalizeRec(Tail(comps), stack)
         ELSE IF c = <<".", ".">>
              THEN NormalizeRec(Tail(comps),
                                IF stack = <<>> THEN stack
                                ELSE SubSeq(stack, 1, Len(stack) - 1))
              ELSE NormalizeRec(Tail(comps), Append(stack, c))

\* join(base, rel): base is a normalised path, rel a string
join(base, rel) == NormalizeRec(SplitRec(rel, <<>>, <<>>), base)

----------------------------------------------------------------------------
(* The identifiers the operations are called with: two that the validator  *)
(* accepts, a reserved word, two that hold path separators, and the name   *)
(* of the listing function                                                 *)

work == <<"w", "o", "r", "k">>
dev == <<"d", "e", "v">>
reserved == <<"m", "a", "i", "n">>
dotdot == <<"x", "/", ".", ".", "/", ".", "c", "l", "a", "u", "d", "e">>
dotdotwork == <<"x", "/", ".", ".", "/", ".", "c", "l", "a", "u", "d", "e", "-", "w", "o", "r", "k">>
cclist == <<"c", "c", "-", "l", "i", "s", "t">>

Identifiers == {work, dev, reserved, dotdot, dotdotwork, cclist}

----------------------------------------------------------------------------
(* utils/paths *)

HOME == << <<"h", "o", "m", "e">> >>

mainConfig == join(HOME, <<".", "c", "l", "a", "u", "d", "e">>)

mainCredentials == join(HOME, <<".", "c", "l", "a", "u", "d", "e", ".", "j", "s", "o", "n">>)

profilesConfig == join(HOME, <<".", "c", "c", "-", "p", "r", "o", "f", "i", "l", "e", "s", ".", "j", "s", "o", "n">>)

sharedItems == <<
    [name |-> <<"s", "e", "t", "t", "i", "n", "g", "s", ".", "j", "s", "o", "n">>, type |-> "file", required |-> TRUE],
    [name |-> <<"s", "t", "a", "t", "s", "-", "c", "a", "c", "h", "e", ".", "j", "s", "o", "n">>, type |-> "file", required |-> FALSE],
    [name |-> <<"C", "L", "A", "U", "D", "E", ".", "m", "d">>, type |-> "file", required |-> FALSE],
    [name |-> <<"a", "g", "e", "n", "t", "s">>, type |-> "directory", required |-> FALSE],
    [name |-> <<"c", "o", "m", "m", "a", "n", "d", "s">>, type |-> "directory", required |-> FALSE],
    [name |-> <<"p", "l", "u", "g", "i", "n", "s">>, type |-> "directory", required |-> FALSE],
    [name |-> <<"s", "k", "i", "l", "l", "s">>, type |-> "directory", required |-> FALSE] >>

\* join(HOME, `.claude-${name}`) and join(HOME, `.claude-${name}.json`),
\* computed once for each identifier of the model
ProfilePathOf ==
    [name \in Identifiers |->
        join(HOME, <<".", "c", "l", "a", "u", "d", "e", "-">> \o name)]

ProfileCredentialsPathOf ==
    [name \in Identifiers |->
        join(HOME, <<".", "c", "l", "a", "u", "d", "e", "-">> \o name \o <<".", "j", "s", "o", "n">>)]

getProfilePath(name) == ProfilePathOf[name]

getProfileCredentialsPath(name) == ProfileCredentialsPathOf[name]

\* join(CLAUDE_PATHS.mainConfig, item.name) and join(profilePath, item.name)
\* for the i-th shared item
SourceOf == [i \in 1..Len(sharedItems) |-> join(mainConfig, sharedItems[i].name)]

TargetOf ==
    [name \in Identifiers |->
        [i \in 1..Len(sharedItems) |-> join(ProfilePathOf[name], sharedItems[i].name)]]

----------------------------------------------------------------------------
(* File contents.  A content is a text; what matters of it is how JSON.parse *)
(* reads it: not at all ("garbage"), as a falsy value ("null"), as a value   *)
(* without a profiles member ("object"), or as a ProfileConfig ("doc").      *)
(* "script" is a generated launcher file, "text" any other file.             *)

Content(k, profiles, version, defaultProfile, lines) ==
    [k |-> k, profiles |-> profiles, version |-> version,
     defaultProfile |-> defaultProfile, lines |-> lines]

GarbageText == Content("garbage", <<>>, "", <<>>, <<>>)
NullJson == Content("null", <<>>, "", <<>>, <<>>)
ObjectJson == Content("object", <<>>, "", <<>>, <<>>)
OpaqueText(tag) == Content("text", <<>>, tag, <<>>, <<>>)

\* JSON.parse(content) throws
parseThrows(c) == c.k \notin {"null", "object", "doc"}

\* JSON.stringify(data, null, 2) of a ProfileConfig: the members in insertion
\* order; a member that is undefined is left out
stringify(config) ==
    Content("doc", config.profiles, config.version, config.defaultProfile, <<>>)

\* new Date(ms).toISOString() and new Date(iso).getTime()
toISOString(ms) == <<"T", digitChars[ms + 1]>>
getTime(iso) == (CHOOSE i \in 1..Len(digitChars) : digitChars[i] = iso[2]) - 1

----------------------------------------------------------------------------
(* The file system.  A node is a directory, a regular file with a content,  *)
(* or a symbolic link to a path.                                            *)

NoContent == Content("none", <<>>, "", <<>>, <<>>)

DirNode == [kind |-> "dir", to |-> <<>>, content |-> NoContent]
FileNode(c) == [kind |-> "file", to |-> <<>>, content |-> c]
LinkNode(t) == [kind |-> "link", to |-> t, content |-> NoContent]

IsPrefix(p, q) == Len(p) <= Len(q) /\ SubSeq(q, 1, Len(p)) = p

\* a path no lookup resolves to
ENOENT == << <<>> >>

\* path resolution as stat(2) does it: every symbolic link on the way is followed
RECURSIVE walk(_, _, _, _)
walk(f, cur, rest, fuel) ==
    IF rest = <<>> THEN cur
    ELSE LET nxt == Append(cur, Head(rest)) IN
         IF nxt \notin DOMAIN f THEN ENOENT
         ELSE IF f[nxt].kind = "link"
              THEN IF fuel = 0 THEN ENOENT
                   ELSE walk(f, <<>>, f[nxt].to \o Tail(rest), fuel - 1)
              ELSE walk(f, nxt, Tail(rest), fuel)

\* fs.stat(path) succeeds
statOk(f, p) == walk(f, <<>>, p, Cardinality(DOMAIN f)) # ENOENT

\* existsSync(path): true when the path resolves, through links, to a node
existsSync(f, p) == statOk(f, p)

\* lstatSync(path).isSymbolicLink(), for a path that has an entry
isSymbolicLink(f, p) == f[p].kind = "link"

\* fs.rm(path, {recursive: true, force: true}): the entry and all below it;
\* a symbolic link is removed, never followed
rmRecursive(f, p) == [q \in {r \in DOMAIN f : ~IsPrefix(p, r)} |-> f[q]]

\* fs.unlink(path) / fs.rm(path) of one entry
unlink(f, p) == [q \in DOMAIN f \ {p} |-> f[q]]

Put(f, p, node) == [q \in DOMAIN f \cup {p} |-> IF q = p THEN node ELSE f[q]]

\* fs.mkdir(path, {recursive: true})
mkdirRecursive(f, p) ==
    [q \in DOMAIN f \cup {SubSeq(p, 1, n) : n \in 1..Len(p)} |->
        IF q \in DOMAIN f THEN f[q] ELSE DirNode]

\* fs.writeFile(path, content)
writeFile(f, p, c) == Put(f, p, FileNode(c))

----------------------------------------------------------------------------
(* utils/fs *)

\* a variant of readJson that lets the error of JSON.parse through
readJsonUncaught(f, p) ==
    IF ~statOk(f, p) THEN NullJson
    ELSE LET c == f[walk(f, <<>>, p, Cardinality(DOMAIN f))] IN
         IF c.kind # "file" THEN NullJson
         ELSE c.content

\* readJson: the parsed value, or null when the read or the parse throws
readJson(f, p) ==
    IF ~statOk(f, p) THEN NullJson
    ELSE LET c == f[walk(f, <<>>, p, Cardinality(DOMAIN f))] IN
         IF c.kind # "file" THEN NullJson
         ELSE IF parseThrows(c.content) THEN NullJson
         ELSE c.content

writeJson(f, p, data) == writeFile(f, p, stringify(data))

----------------------------------------------------------------------------
(* core/symlinks *)

Ok(f) == [fs |-> f, err |-> "none"]
Throw(f, e) == [fs |-> f, err |-> e]

\* fs.symlink(source, target): EEXIST when the target has an entry, ENOENT
\* when its directory does not exist
symlink(f, source, target) ==
    IF target \in DOMAIN f THEN Throw(f, "EEXIST")
    ELSE IF ~statOk(f, SubSeq(target, 1, Len(target) - 1)) THEN Throw(f, "ENOENT")
    ELSE Ok(Put(f, target, LinkNode(source)))

RECURSIVE createSymlinksFrom(_, _, _)
createSymlinksFrom(f, profileName, i) ==
    IF i > Len(sharedItems) THEN Ok(f)
    ELSE LET item == sharedItems[i]
             source == SourceOf[i]
             target == TargetOf[profileName][i]
         IN IF ~existsSync(f, source)
            THEN IF item.required
                 THEN Throw(f, "MissingRequiredSharedResource")
                 ELSE createSymlinksFrom(f, profileName, i + 1)
            ELSE IF existsSync(f, target) /\ isSymbolicLink(f, target)
                 THEN createSymlinksFrom(f, profileName, i + 1)
                 ELSE LET f1 == IF existsSync(f, target)
                                THEN rmRecursive(f, target) ELSE f
                          r == symlink(f1, source, target)
                      IN IF r.err # "none" THEN r
                         ELSE createSymlinksFrom(r.fs, profileName, i + 1)

\* a variant that links the required items only
createSymlinksRequiredOnly(f, profileName) ==
    LET r == createSymlinksFrom(f, profileName, 1)
        optional == {TargetOf[profileName][i] : i \in {j \in 1..Len(sharedItems) : ~sharedItems[j].required}}
    IN [r EXCEPT !.fs = [q \in DOMAIN r.fs \ optional |-> r.fs[q]]]

\* a variant that does not skip a target that is a link already
RECURSIVE createSymlinksNoSkipFrom(_, _, _)
createSymlinksNoSkipFrom(f, profileName, i) ==
    IF i > Len(sharedItems) THEN Ok(f)
    ELSE LET item == sharedItems[i]
             source == SourceOf[i]
             target == TargetOf[profileName][i]
         IN IF ~existsSync(f, source)
            THEN IF item.required
                 THEN Throw(f, "MissingRequiredSharedResource")
                 ELSE createSymlinksNoSkipFrom(f, profileName, i + 1)
            ELSE LET f1 == IF existsSync(f, target) /\ ~isSymbolicLink(f, target)
                           THEN rmRecursive(f, target) ELSE f
                     r == symlink(f1, source, target)
                 IN IF r.err # "none" THEN r
                    ELSE createSymlinksNoSkipFrom(r.fs, profileName, i + 1)

createSymlinksNoSkip(f, profileName) == createSymlinksNoSkipFrom(f, profileName, 1)

\* a variant that skips every target that exists, link or not
RECURSIVE createSymlinksKeepsEntriesFrom(_, _, _)
createSymlinksKeepsEntriesFrom(f, profileName, i) ==
    IF i > Len(sharedItems) THEN Ok(f)
    ELSE LET item == sharedItems[i]
             source == SourceOf[i]
             target == TargetOf[profileName][i]
         IN IF ~existsSync(f, source)
            THEN IF item.required
                 THEN Throw(f, "MissingRequiredSharedResource")
                 ELSE createSymlinksKeepsEntriesFrom(f, profileName, i + 1)
            ELSE IF existsSync(f, target)
            THEN createSymlinksKeepsEntriesFrom(f, profileName, i + 1)
            ELSE LET r == symlink(f, source, target)
                 IN IF r.err # "none" THEN r
                    ELSE createSymlinksKeepsEntriesFrom(r.fs, profileName, i + 1)

createSymlinksKeepsEntries(f, profileName) == createSymlinksKeepsEntriesFrom(f, profileName, 1)

createSymlinks(f, profileName) == createSymlinksFrom(f, profileName, 1)

RECURSIVE removeSymlinksFrom(_, _, _)
removeSymlinksFrom(f, profileName, i) ==
    IF i > Len(sharedItems) THEN f
    ELSE LET target == TargetOf[profileName][i]
         IN IF existsSync(f, target) /\ isSymbolicLink(f, target)
            THEN removeSymlinksFrom(unlink(f, target), profileName, i + 1)
            ELSE removeSymlinksFrom(f, profileName, i + 1)

removeSymlinks(f, profileName) == removeSymlinksFrom(f, profileName, 1)

\* a variant that verifies the optional items as well
verifySymlinksAll(f, profileName) ==
    \A i \in 1..Len(sharedItems) :
        LET target == TargetOf[profileName][i]
        IN /\ existsSync(f, target)
           /\ isSymbolicLink(f, target)
           /\ statOk(f, target)

verifySymlinks(f, profileName) ==
    \A i \in 1..Len(sharedItems) :
        sharedItems[i].required =>
            LET target == TargetOf[profileName][i]
            IN /\ existsSync(f, target)
               /\ isSymbolicLink(f, target)
               /\ statOk(f, target)

getSymlinkStatus(f, profileName) ==
    [i \in 1..Len(sharedItems) |->
        LET target == TargetOf[profileName][i]
            exists == existsSync(f, target)
            isSymlinkFlag == exists /\ isSymbolicLink(f, target)
        IN [name |-> sharedItems[i].name,
            exists |-> exists,
            isSymlink |-> isSymlinkFlag,
            targetExists |-> isSymlinkFlag /\ statOk(f, target)]]

----------------------------------------------------------------------------
(* core/profile *)

DefaultConfig == [k |-> "doc", profiles |-> <<>>, version |-> "1.0.0",
                  defaultProfile |-> <<>>, lines |-> <<>>]

\* config || { profiles: {}, version: '1.0.0' }
loadProfilesConfig(f) ==
    LET config == readJson(f, profilesConfig)
    IN IF config.k = "null" THEN DefaultConfig ELSE config

\* the keys of config.profiles, in insertion order
Keys(profiles) == [i \in 1..Len(profiles) |-> profiles[i].key]

HasKey(profiles, name) == \E i \in 1..Len(profiles) : profiles[i].key = name

\* config.profiles[name] = metadata: an existing key keeps its place, a new
\* key comes last
setKey(profiles, name, metadata) ==
    IF HasKey(profiles, name)
    THEN [i \in 1..Len(profiles) |->
            IF profiles[i].key = name THEN metadata ELSE profiles[i]]
    ELSE Append(profiles, metadata)

\* delete config.profiles[name]
RECURSIVE deleteKey(_, _)
deleteKey(profiles, name) ==
    IF profiles = <<>> THEN <<>>
    ELSE IF Head(profiles).key = name THEN deleteKey(Tail(profiles), name)
    ELSE <<Head(profiles)>> \o deleteKey(Tail(profiles), name)

\* config.profiles is undefined: reading or writing a member of it throws
saveProfileMetadata(f, name, now) ==
    LET config == loadProfilesConfig(f)
    IN IF config.k # "doc" THEN Throw(f, "TypeError")
       ELSE Ok(writeJson(f, profilesConfig,
                 [config EXCEPT !.profiles =
                     setKey(@, name, [key |-> name, name |-> name,
                                      createdAt |-> toISOString(now),
                                      shellAlias |-> name])]))

removeProfileMetadata(f, name) ==
    LET config == loadProfilesConfig(f)
    IN IF config.k # "doc" THEN Throw(f, "TypeError")
       ELSE Ok(writeJson(f, profilesConfig,
                 [config EXCEPT !.profiles = deleteKey(@, name)]))

NoProfile == [name |-> <<>>, isAuthenticated |-> FALSE, createdAt |-> 0]

\* the message of the Error createProfile throws at each of its three checks
createProfileMessage(err, name) ==
    CASE err = "InvalidName" ->
            Message("Invalid profile name. Use only lowercase letters, numbers, and hyphens (must start with a letter).", <<>>)
      [] err = "AlreadyExists" -> Message("Profile \"%\" already exists.", name)
      [] err = "BaseNotConfigured" ->
            Message("Claude Code is not configured. Please run \"claude\" first to set up your main configuration.", <<>>)
      [] OTHER -> NoMessage

\* a variant that writes the metadata before it links
createProfileSavesFirst(f, name, now) ==
    LET profilePath == getProfilePath(name)
    IN IF ~isValidProfileName(name)
       THEN [fs |-> f, err |-> "InvalidName", ret |-> NoProfile]
       ELSE IF existsSync(f, profilePath)
       THEN [fs |-> f, err |-> "AlreadyExists", ret |-> NoProfile]
       ELSE IF ~existsSync(f, mainConfig)
       THEN [fs |-> f, err |-> "BaseNotConfigured", ret |-> NoProfile]
       ELSE LET saved == saveProfileMetadata(mkdirRecursive(f, profilePath), name, now)
                linked == createSymlinks(saved.fs, name)
            IN IF saved.err # "none"
               THEN [fs |-> saved.fs, err |-> saved.err, ret |-> NoProfile]
               ELSE IF linked.err # "none"
               THEN [fs |-> linked.fs, err |-> linked.err, ret |-> NoProfile]
               ELSE [fs |-> linked.fs, err |-> "none",
                     ret |-> [name |-> name,
                              isAuthenticated |-> existsSync(linked.fs, getProfileCredentialsPath(name)),
                              createdAt |-> now]]

\* a variant that looks for the private directory before it validates
createProfileExistsFirst(f, name, now) ==
    LET profilePath == getProfilePath(name)
    IN IF existsSync(f, profilePath)
       THEN [fs |-> f, err |-> "AlreadyExists", ret |-> NoProfile]
       ELSE IF ~isValidProfileName(name)
       THEN [fs |-> f, err |-> "InvalidName", ret |-> NoProfile]
       ELSE IF ~existsSync(f, mainConfig)
       THEN [fs |-> f, err |-> "BaseNotConfigured", ret |-> NoProfile]
       ELSE LET linked == createSymlinks(mkdirRecursive(f, profilePath), name)
            IN IF linked.err # "none"
               THEN [fs |-> linked.fs, err |-> linked.err, ret |-> NoProfile]
               ELSE LET saved == saveProfileMetadata(linked.fs, name, now)
                    IN IF saved.err # "none"
                       THEN [fs |-> saved.fs, err |-> saved.err, ret |-> NoProfile]
                       ELSE [fs |-> saved.fs, err |-> "none",
                             ret |-> [name |-> name,
                                      isAuthenticated |-> existsSync(saved.fs, getProfileCredentialsPath(name)),
                                      createdAt |-> now]]

\* a variant that returns every new profile as not authenticated
createProfileNotAuthenticated(f, name, now) ==
    LET profilePath == getProfilePath(name)
    IN IF ~isValidProfileName(name)
       THEN [fs |-> f, err |-> "InvalidName", ret |-> NoProfile]
       ELSE IF existsSync(f, profilePath)
       THEN [fs |-> f, err |-> "AlreadyExists", ret |-> NoProfile]
       ELSE IF ~existsSync(f, mainConfig)
       THEN [fs |-> f, err |-> "BaseNotConfigured", ret |-> NoProfile]
       ELSE LET linked == createSymlinks(mkdirRecursive(f, profilePath), name)
            IN IF linked.err # "none"
               THEN [fs |-> linked.fs, err |-> linked.err, ret |-> NoProfile]
               ELSE LET saved == saveProfileMetadata(linked.fs, name, now)
                    IN IF saved.err # "none"
                       THEN [fs |-> saved.fs, err |-> saved.err, ret |-> NoProfile]
                       ELSE [fs |-> saved.fs, err |-> "none",
                             ret |-> [name |-> name, isAuthenticated |-> FALSE,
                                      createdAt |-> now]]

\* a variant that does not validate the name
createProfileUnvalidated(f, name, now) ==
    LET profilePath == getProfilePath(name)
    IN IF existsSync(f, profilePath)
       THEN [fs |-> f, err |-> "AlreadyExists", ret |-> NoProfile]
       ELSE IF ~existsSync(f, mainConfig)
       THEN [fs |-> f, err |-> "BaseNotConfigured", ret |-> NoProfile]
       ELSE LET linked == createSymlinks(mkdirRecursive(f, profilePath), name)
            IN IF linked.err # "none"
               THEN [fs |-> linked.fs, err |-> linked.err, ret |-> NoProfile]
               ELSE LET saved == saveProfileMetadata(linked.fs, name, now)
                    IN IF saved.err # "none"
                       THEN [fs |-> saved.fs, err |-> saved.err, ret |-> NoProfile]
                       ELSE [fs |-> saved.fs, err |-> "none",
                             ret |-> [name |-> name,
                                      isAuthenticated |-> existsSync(saved.fs, getProfileCredentialsPath(name)),
                                      createdAt |-> now]]

createProfile(f, name, now) ==
    LET profilePath == getProfilePath(name)
        credentialsPath == getProfileCredentialsPath(name)
    IN IF ~isValidProfileName(name)
       THEN [fs |-> f, err |-> "InvalidName", ret |-> NoProfile]
       ELSE IF existsSync(f, profilePath)
       THEN [fs |-> f, err |-> "AlreadyExists", ret |-> NoProfile]
       ELSE IF ~existsSync(f, mainConfig)
       THEN [fs |-> f, err |-> "BaseNotConfigured", ret |-> NoProfile]
       ELSE LET linked == createSymlinks(mkdirRecursive(f, profilePath), name)
            IN IF linked.err # "none"
               THEN [fs |-> linked.fs, err |-> linked.err, ret |-> NoProfile]
               ELSE LET saved == saveProfileMetadata(linked.fs, name, now)
                    IN IF saved.err # "none"
                       THEN [fs |-> saved.fs, err |-> saved.err, ret |-> NoProfile]
                       ELSE [fs |-> saved.fs, err |-> "none",
                             ret |-> [name |-> name,
                                      isAuthenticated |-> existsSync(saved.fs, credentialsPath),
                                      createdAt |-> now]]

\* Array.prototype.sort with (a, b) => b.createdAt - a.createdAt: stable,
\* newest first
RECURSIVE insertSorted(_, _)
insertSorted(sorted, p) ==
    IF sorted = <<>> THEN <<p>>
    ELSE IF Head(sorted).createdAt >= p.createdAt
         THEN <<Head(sorted)>> \o insertSorted(Tail(sorted), p)
         ELSE <<p>> \o sorted

\* a variant that leaves the profiles in the order of the document
unsortedProfiles(profiles) == profiles

RECURSIVE sortProfiles(_)
sortProfiles(profiles) ==
    IF profiles = <<>> THEN <<>>
    ELSE insertSorted(sortProfiles(SubSeq(profiles, 1, Len(profiles) - 1)),
                      profiles[Len(profiles)])

\* a variant that does not look for the private directory
RECURSIVE allProfiles(_, _)
allProfiles(f, entries) ==
    IF entries = <<>> THEN <<>>
    ELSE LET e == Head(entries)
         IN <<[name |-> e.key,
               isAuthenticated |-> existsSync(f, getProfileCredentialsPath(e.key)),
               createdAt |-> getTime(e.createdAt)]>> \o allProfiles(f, Tail(entries))

RECURSIVE existingProfiles(_, _)
existingProfiles(f, entries) ==
    IF entries = <<>> THEN <<>>
    ELSE LET e == Head(entries)
             rest == existingProfiles(f, Tail(entries))
         IN IF existsSync(f, getProfilePath(e.key))
            THEN <<[name |-> e.key,
                    isAuthenticated |-> existsSync(f, getProfileCredentialsPath(e.key)),
                    createdAt |-> getTime(e.createdAt)]>> \o rest
            ELSE rest

\* Object.entries(config.profiles) throws when config has no profiles
listProfiles(f) ==
    LET config == loadProfilesConfig(f)
    IN IF config.k # "doc" THEN [err |-> "TypeError", ret |-> <<>>]
       ELSE [err |-> "none", ret |-> sortProfiles(existingProfiles(f, config.profiles))]

\* a variant that leaves the credentials file
removeProfileKeepsCredentials(f, name) ==
    LET profilePath == getProfilePath(name)
    IN IF ~existsSync(f, profilePath) THEN Throw(f, "NotFound")
       ELSE removeProfileMetadata(rmRecursive(removeSymlinks(f, name), profilePath), name)

\* a variant that updates the document before it looks for the directory
removeProfilePurgesFirst(f, name) ==
    LET profilePath == getProfilePath(name)
        credentialsPath == getProfileCredentialsPath(name)
        purged == removeProfileMetadata(f, name)
    IN IF ~existsSync(f, profilePath) THEN Throw(purged.fs, "NotFound")
       ELSE LET f1 == removeSymlinks(purged.fs, name)
                f2 == rmRecursive(f1, profilePath)
                f3 == IF existsSync(f2, credentialsPath)
                      THEN unlink(f2, credentialsPath) ELSE f2
            IN Throw(f3, purged.err)

removeProfile(f, name) ==
    LET profilePath == getProfilePath(name)
        credentialsPath == getProfileCredentialsPath(name)
    IN IF ~existsSync(f, profilePath) THEN Throw(f, "NotFound")
       ELSE LET f1 == removeSymlinks(f, name)
                f2 == rmRecursive(f1, profilePath)
                f3 == IF existsSync(f2, credentialsPath)
                      THEN unlink(f2, credentialsPath) ELSE f2
            IN removeProfileMetadata(f3, name)

profileExists(f, name) == existsSync(f, getProfilePath(name))

----------------------------------------------------------------------------
(* core/shell *)

\* String.prototype.includes
includes(s, sub) ==
    \E i \in 0..(Len(s) - Len(sub)) : SubSeq(s, i + 1, i + Len(sub)) = sub

detectShell(f, env) ==
    IF includes(env, <<"z", "s", "h">>)
    THEN [type |-> "zsh", rcFile |-> join(HOME, <<".", "z", "s", "h", "r", "c">>)]
    ELSE IF includes(env, <<"b", "a", "s", "h">>)
    THEN LET bashProfile == join(HOME, <<".", "b", "a", "s", "h", "_", "p", "r", "o", "f", "i", "l", "e">>)
             bashrc == join(HOME, <<".", "b", "a", "s", "h", "r", "c">>)
         IN [type |-> "bash",
             rcFile |-> IF existsSync(f, bashProfile) THEN bashProfile ELSE bashrc]
    ELSE IF includes(env, <<"f", "i", "s", "h">>)
    THEN [type |-> "fish",
          rcFile |-> join(HOME, <<".", "c", "o", "n", "f", "i", "g", "/", "f", "i", "s", "h", "/", "c", "o", "n", "f", "i", "g", ".", "f", "i", "s", "h">>)]
    ELSE [type |-> "unknown", rcFile |-> join(HOME, <<".", "b", "a", "s", "h", "r", "c">>)]

fishFunctionsDir ==
    join(HOME, <<".", "c", "o", "n", "f", "i", "g", "/", "f", "i", "s", "h", "/", "f", "u", "n", "c", "t", "i", "o", "n", "s">>)

getAliasesFilePath(f, env) ==
    IF detectShell(f, env).type = "fish"
    THEN join(HOME, <<".", "c", "o", "n", "f", "i", "g", "/", "f", "i", "s", "h", "/", "f", "u", "n", "c", "t", "i", "o", "n", "s", "/", "c", "c", "-", "p", "r", "o", "f", "i", "l", "e", "s", ".", "f", "i", "s", "h">>)
    ELSE join(HOME, <<".", "c", "c", "-", "p", "r", "o", "f", "i", "l", "e", "s", "-", "a", "l", "i", "a", "s", "e", "s", ".", "s", "h">>)

(* A shell startup file is text: a sequence of pieces, each a newline, a   *)
(* space, or a run of text without white space at its ends.               *)

INTEGRATION_MARKER == "# cc-profiles shell integration"

\* the second line of the integration block
sourceLine == "[ -f ~/.cc-profiles-aliases.sh ] && source ~/.cc-profiles-aliases.sh"

\* text of the user's own, without and with the name of the aliases file
userText == "export EDITOR=vi"
userMention == "cat ~/.cc-profiles-aliases.sh"

RcText(pieces) == Content("rc", <<>>, "", <<>>, pieces)

\* piece.includes('.cc-profiles-aliases.sh')
mentionsAliasesFile(piece) == piece \in {sourceLine, userMention}

\* String.prototype.trimEnd
RECURSIVE trimEnd(_)
trimEnd(text) ==
    IF text = <<>> THEN <<>>
    ELSE IF text[Len(text)] \in {"\n", " "} THEN trimEnd(SubSeq(text, 1, Len(text) - 1))
    ELSE text

\* text.split('\n')
RECURSIVE splitLinesRec(_, _, _)
splitLinesRec(text, cur, out) ==
    IF text = <<>> THEN Append(out, cur)
    ELSE IF Head(text) = "\n" THEN splitLinesRec(Tail(text), <<>>, Append(out, cur))
    ELSE splitLinesRec(Tail(text), Append(cur, Head(text)), out)

splitLines(text) == splitLinesRec(text, <<>>, <<>>)

\* lines.join('\n')
RECURSIVE joinLines(_)
joinLines(lines) ==
    IF lines = <<>> THEN <<>>
    ELSE IF Len(lines) = 1 THEN lines[1]
    ELSE lines[1] \o <<"\n">> \o joinLines(Tail(lines))

\* readFile(rcFile, 'utf-8')
readText(f, p) == f[walk(f, <<>>, p, Cardinality(DOMAIN f))].content.lines

isShellIntegrated(f, env) ==
    LET shell == detectShell(f, env)
    IN IF shell.type = "fish" THEN TRUE
       ELSE IF ~existsSync(f, shell.rcFile) THEN FALSE
       ELSE INTEGRATION_MARKER \in Range(readText(f, shell.rcFile))

\* the text setupShellIntegration writes for a startup file that holds content
integratedText(content) ==
    trimEnd(content) \o <<"\n", "\n", INTEGRATION_MARKER, "\n", sourceLine, "\n">>

\* a variant that does not look for the marker
setupAlwaysAppends(f, env) ==
    LET shell == detectShell(f, env)
        content == IF existsSync(f, shell.rcFile) THEN readText(f, shell.rcFile) ELSE <<>>
    IN IF shell.type = "fish" THEN f
       ELSE writeFile(f, shell.rcFile, RcText(integratedText(content)))

setupShellIntegration(f, env) ==
    LET shell == detectShell(f, env)
        content == IF existsSync(f, shell.rcFile) THEN readText(f, shell.rcFile) ELSE <<>>
    IN IF shell.type = "fish" THEN f
       ELSE IF isShellIntegrated(f, env) THEN f
       ELSE writeFile(f, shell.rcFile, RcText(integratedText(content)))

\* the lines removeShellIntegration keeps
keptLines(lines) ==
    SelectSeq(lines, LAMBDA line :
        /\ INTEGRATION_MARKER \notin Range(line)
        /\ \A i \in 1..Len(line) : ~mentionsAliasesFile(line[i]))

\* a variant that removes the lines with the marker only
removeMarkerLinesOnly(f, env) ==
    LET shell == detectShell(f, env)
        f1 == IF existsSync(f, shell.rcFile) /\ shell.type # "fish"
              THEN writeFile(f, shell.rcFile,
                             RcText(joinLines(SelectSeq(splitLines(readText(f, shell.rcFile)),
                                        LAMBDA line : INTEGRATION_MARKER \notin Range(line)))))
              ELSE f
        aliasesFile == getAliasesFilePath(f1, env)
    IN IF existsSync(f1, aliasesFile) THEN unlink(f1, aliasesFile) ELSE f1

\* a variant that treats every shell family alike
removeFromAnyShell(f, env) ==
    LET shell == detectShell(f, env)
        f1 == IF existsSync(f, shell.rcFile)
              THEN writeFile(f, shell.rcFile,
                             RcText(joinLines(keptLines(splitLines(readText(f, shell.rcFile))))))
              ELSE f
        aliasesFile == getAliasesFilePath(f1, env)
    IN IF existsSync(f1, aliasesFile) THEN unlink(f1, aliasesFile) ELSE f1

removeShellIntegration(f, env) ==
    LET shell == detectShell(f, env)
        f1 == IF existsSync(f, shell.rcFile) /\ shell.type # "fish"
              THEN writeFile(f, shell.rcFile,
                             RcText(joinLines(keptLines(splitLines(readText(f, shell.rcFile))))))
              ELSE f
        aliasesFile == getAliasesFilePath(f1, env)
    IN IF existsSync(f1, aliasesFile) THEN unlink(f1, aliasesFile) ELSE f1

\* One line of a generated file: a template of the source with ${...}
\* replaced by arg where the template has %
Line(tpl, arg) == [tpl |-> tpl, arg |-> arg]

Blank == Line("", <<>>)

\* lines.map(fn).join(sep): the blocks with sep between them
RECURSIVE joinBlocks(_, _)
joinBlocks(blocks, sep) ==
    IF blocks = <<>> THEN <<>>
    ELSE IF Len(blocks) = 1 THEN blocks[1]
    ELSE blocks[1] \o sep \o joinBlocks(Tail(blocks), sep)

bashFunction(name) == <<
    Line("%() {", name),
    Line("    CLAUDE_CONFIG_DIR=\"$HOME/.claude-%\" command claude \"$@\"", name),
    Line("}", <<>>) >>

fishFunction(name) == <<
    Line("function %", name),
    Line("    set -x CLAUDE_CONFIG_DIR \"$HOME/.claude-%\"", name),
    Line("    command claude $argv", <<>>),
    Line("end", <<>>) >>

\* a variant that echoes the identifiers last to first
echoLinesReversed(profileNames) ==
    [i \in 1..Len(profileNames) |->
        Line("    echo \"  %\"", profileNames[Len(profileNames) + 1 - i])]

echoLines(profileNames) ==
    [i \in 1..Len(profileNames) |-> Line("    echo \"  %\"", profileNames[i])]

bashContent(profileNames, now) ==
    << Line("#!/bin/bash", <<>>),
       Line("# Auto-generated by cc-profiles - DO NOT EDIT MANUALLY", <<>>),
       Line("# This file is regenerated when profiles are created/removed", <<>>),
       Line("# Generated: %", toISOString(now)),
       Blank >>
    \o joinBlocks([i \in 1..Len(profileNames) |-> bashFunction(profileNames[i])], <<Blank>>)
    \o << Blank,
          Line("# List all available profiles", <<>>),
          Line("cc-list() {", <<>>),
          Line("    echo \"Available Claude Code profiles:\"", <<>>) >>
    \o echoLines(profileNames)
    \o << Line("    echo \"\"", <<>>),
          Line("    echo \"Run any profile name as a command to start Claude with that profile.\"", <<>>),
          Line("}", <<>>) >>

fishContent(profileNames, now) ==
    << Line("# Auto-generated by cc-profiles - DO NOT EDIT MANUALLY", <<>>),
       Line("# This file is regenerated when profiles are created/removed", <<>>),
       Line("# Generated: %", toISOString(now)),
       Blank >>
    \o joinBlocks([i \in 1..Len(profileNames) |-> fishFunction(profileNames[i])], <<Blank>>)
    \o << Blank,
          Line("function cc-list", <<>>),
          Line("    echo \"Available Claude Code profiles:\"", <<>>) >>
    \o echoLines(profileNames)
    \o << Line("    echo \"\"", <<>>),
          Line("    echo \"Run any profile name as a command to start Claude with that profile.\"", <<>>),
          Line("end", <<>>) >>

Script(lines) == Content("script", <<>>, "", <<>>, lines)

\* a variant that leaves the file alone when the list is empty
regenerateKeepsFile(f, env, profileNames, now) ==
    LET shell == detectShell(f, env)
        aliasesFile == getAliasesFilePath(f, env)
    IN IF Len(profileNames) = 0 THEN f
       ELSE IF shell.type = "fish"
            THEN writeFile(mkdirRecursive(f, fishFunctionsDir), aliasesFile,
                           Script(fishContent(profileNames, now)))
            ELSE writeFile(f, aliasesFile, Script(bashContent(profileNames, now)))

\* a variant that writes the new content after what the file already holds
regenerateAppends(f, env, profileNames, now) ==
    LET shell == detectShell(f, env)
        aliasesFile == getAliasesFilePath(f, env)
        old == IF aliasesFile \in DOMAIN f THEN f[aliasesFile].content.lines ELSE <<>>
    IN IF Len(profileNames) = 0
       THEN IF existsSync(f, aliasesFile) THEN unlink(f, aliasesFile) ELSE f
       ELSE IF shell.type = "fish"
            THEN writeFile(mkdirRecursive(f, fishFunctionsDir), aliasesFile,
                           Script(old \o fishContent(profileNames, now)))
            ELSE writeFile(f, aliasesFile, Script(old \o bashContent(profileNames, now)))

regenerateAliasesFile(f, env, profileNames, now) ==
    LET shell == detectShell(f, env)
        aliasesFile == getAliasesFilePath(f, env)
    IN IF Len(profileNames) = 0
       THEN IF existsSync(f, aliasesFile) THEN unlink(f, aliasesFile) ELSE f
       ELSE IF shell.type = "fish"
            THEN writeFile(mkdirRecursive(f, fishFunctionsDir), aliasesFile,
                           Script(fishContent(profileNames, now)))
            ELSE writeFile(f, aliasesFile, Script(bashContent(profileNames, now)))

\* Object.keys(config.profiles || {}); [] when the read or the parse throws,
\* and when the parsed value is null (reading a member of null throws)
getProfileNamesFromConfig(f) ==
    IF ~statOk(f, profilesConfig) THEN <<>>
    ELSE LET c == f[walk(f, <<>>, profilesConfig, Cardinality(DOMAIN f))] IN
         IF c.kind # "file" \/ parseThrows(c.content) THEN <<>>
         ELSE IF c.content.k = "null" THEN <<>>
         ELSE IF c.content.k = "object" THEN <<>>
         ELSE Keys(c.content.profiles)

syncAliases(f, env, now) ==
    regenerateAliasesFile(f, env, getProfileNamesFromConfig(f), now)

----------------------------------------------------------------------------
(* The identifiers the operations are called with, and the initial states *)

Names == {work, dev, reserved, dotdot, dotdotwork}

\* the values of $SHELL: zsh, bash, fish and a shell of no known family
ShellEnvs == {
    <<"/", "b", "i", "n", "/", "z", "s", "h">>,
    <<"/", "b", "i", "n", "/", "b", "a", "s", "h">>,
    <<"/", "b", "i", "n", "/", "f", "i", "s", "h">>,
    <<"/", "b", "i", "n", "/", "s", "h">> }

\* the registry is run under one shell of each family
RegistryShellEnvs == {
    <<"/", "b", "i", "n", "/", "z", "s", "h">>,
    <<"/", "b", "i", "n", "/", "f", "i", "s", "h">> }

\* the shared items the environment may provide, most telling first
ItemOrder == <<1, 4, 2, 5, 3, 6, 7>>

VariedItems == {ItemOrder[i] : i \in 1..MaxItems}

\* the shared root holding the items of present: a file for a file item, a
\* directory with one file in it for a directory item
sharedRoot(present) ==
    LET itemPath(i) == SourceOf[i]
        inside(i) == join(itemPath(i), <<"a", ".", "m", "d">>)
        dirs == {i \in present : sharedItems[i].type = "directory"}
        paths == {mainConfig} \cup {itemPath(i) : i \in present}
                              \cup {inside(i) : i \in dirs}
    IN [p \in paths |->
          IF p = mainConfig \/ (\E i \in dirs : p = itemPath(i)) THEN DirNode
          ELSE FileNode(OpaqueText("shared"))]

homeOnly == [p \in {HOME, mainCredentials} |->
                IF p = HOME THEN DirNode ELSE FileNode(OpaqueText("credentials"))]

\* the union of two file systems over disjoint paths
Overlay(f, g) == [p \in DOMAIN f \cup DOMAIN g |-> IF p \in DOMAIN g THEN g[p] ELSE f[p]]

InitSharedRoots == {homeOnly} \cup {Overlay(homeOnly, sharedRoot(s)) : s \in SUBSET VariedItems}

\* a document left by an earlier run, with a version and a default profile
\* of its own: the entry of a profile whose directory has since been deleted
\* out-of-band
StaleDocument ==
    stringify([DefaultConfig EXCEPT
        !.profiles = <<[key |-> work, name |-> work, createdAt |-> toISOString(0), shellAlias |-> work]>>,
        !.version = "0.9.0",
        !.defaultProfile = work])

\* what the Metadata Document file holds before the first write
InitDocuments == {GarbageText, NullJson, ObjectJson, stringify(DefaultConfig), StaleDocument}

NoOp == [op |-> "none", id |-> <<>>, err |-> "none", ret |-> <<>>]

\* the processes that may run the tool at the same time
Procs == {1, 2}

\* a process that is not running the tool
Idle == [op |-> "none", id |-> <<>>, pc |-> "idle", i |-> 0,
         config |-> NullJson, err |-> "none"]

NoCalls == [p \in Procs |-> Idle]

Init ==
    /\ \E f \in InitSharedRoots :
          \/ fs = f
          \/ \E d \in InitDocuments : fs = writeFile(f, profilesConfig, d)
    /\ clock = 0
    /\ shellEnv \in RegistryShellEnvs
    /\ last = NoOp
    /\ calls = NoCalls

----------------------------------------------------------------------------
(* The operations, one action each *)

Done(op, id, err, ret) == [op |-> op, id |-> id, err |-> err, ret |-> ret]

Create(id) ==
    LET r == createProfile(fs, id, clock)
    IN /\ fs' = r.fs
       /\ last' = Done("create", id, r.err, r.ret)
       /\ UNCHANGED <<clock, shellEnv, calls>>

Remove(id) ==
    LET r == removeProfile(fs, id)
    IN /\ fs' = r.fs
       /\ last' = Done("remove", id, r.err, <<>>)
       /\ UNCHANGED <<clock, shellEnv, calls>>

List ==
    LET r == listProfiles(fs)
    IN /\ last' = Done("list", <<>>, r.err, r.ret)
       /\ UNCHANGED <<fs, clock, shellEnv, calls>>

CreateLinks(id) ==
    LET r == createSymlinks(fs, id)
    IN /\ fs' = r.fs
       /\ last' = Done("createLinks", id, r.err, <<>>)
       /\ UNCHANGED <<clock, shellEnv, calls>>

RemoveLinks(id) ==
    /\ fs' = removeSymlinks(fs, id)
    /\ last' = Done("removeLinks", id, "none", <<>>)
    /\ UNCHANGED <<clock, shellEnv, calls>>

VerifyLinks(id) ==
    /\ last' = Done("verifyLinks", id, "none", verifySymlinks(fs, id))
    /\ UNCHANGED <<fs, clock, shellEnv, calls>>

GetLinkStatus(id) ==
    /\ last' = Done("getLinkStatus", id, "none", getSymlinkStatus(fs, id))
    /\ UNCHANGED <<fs, clock, shellEnv, calls>>

SyncFromStore ==
    /\ fs' = syncAliases(fs, shellEnv, clock)
    /\ last' = Done("syncFromStore", <<>>, "none", <<>>)
    /\ UNCHANGED <<clock, shellEnv, calls>>

(* The environment *)

\* a profile directory is deleted out-of-band (rm -rf ~/.claude-<id>)
EnvDeleteProfileDir(id) ==
    /\ isValidProfileName(id)
    /\ getProfilePath(id) \in DOMAIN fs
    /\ fs' = rmRecursive(fs, getProfilePath(id))
    /\ last' = NoOp
    /\ UNCHANGED <<clock, shellEnv, calls>>

\* the assistant, run under a profile, logs in and writes ~/.claude-<id>.json
EnvLogin(id) ==
    /\ isValidProfileName(id)
    /\ getProfilePath(id) \in DOMAIN fs
    /\ getProfileCredentialsPath(id) \notin DOMAIN fs
    /\ fs' = writeFile(fs, getProfileCredentialsPath(id), OpaqueText("credentials"))
    /\ last' = NoOp
    /\ UNCHANGED <<clock, shellEnv, calls>>

\* time passes
Tick ==
    /\ clock < MaxClock
    /\ clock' = clock + 1
    /\ last' = NoOp
    /\ UNCHANGED <<fs, shellEnv, calls>>

Next ==
    \/ \E id \in Names : Create(id)
    \/ \E id \in Names : Remove(id)
    \/ List
    \/ SyncFromStore
    \/ \E id \in Names : EnvDeleteProfileDir(id)
    \/ \E id \in Names : EnvLogin(id)

\* the registry and the launcher synchronisation, one operation at a time
Spec == Init /\ [][Next]_vars

----------------------------------------------------------------------------
(* The registry used through the tool alone: the operations one at a time, *)
(* from a home the tool has not written to, with nothing changed behind    *)
(* its back                                                                *)

InitSerial ==
    /\ fs \in InitSharedRoots
    /\ clock = 0
    /\ shellEnv \in RegistryShellEnvs
    /\ last = NoOp
    /\ calls = NoCalls

NextSerial ==
    \/ \E id \in Names : Create(id)
    \/ \E id \in Names : Remove(id)
    \/ List
    \/ SyncFromStore

SpecSerial == InitSerial /\ [][NextSerial]_vars

----------------------------------------------------------------------------
(* The launcher generator alone: regenerate called with any short list *)

RegenNames == {work, dev, cclist}

\* the longest identifier list regenerate is called with
MaxList == 3

RECURSIVE ListsUpTo(_)
ListsUpTo(n) ==
    IF n = 0 THEN {<<>>}
    ELSE LET shorter == ListsUpTo(n - 1)
         IN shorter \cup {Append(l, x) : l \in {s \in shorter : Len(s) = n - 1}, x \in RegenNames}

InitRegen ==
    /\ fs = homeOnly
    /\ clock = 0
    /\ shellEnv \in ShellEnvs
    /\ last = NoOp
    /\ calls = NoCalls

Regenerate(profileNames) ==
    /\ fs' = regenerateAliasesFile(fs, shellEnv, profileNames, clock)
    /\ last' = Done("regenerate", profileNames, "none", <<>>)
    /\ UNCHANGED <<clock, shellEnv, calls>>

NextRegen ==
    \/ \E l \in ListsUpTo(MaxList) : Regenerate(l)
    \/ Tick

SpecRegen == InitRegen /\ [][NextRegen]_vars

----------------------------------------------------------------------------
(* Two invocations of the tool at the same time.  An operation is the      *)
(* sequence of its awaits: the code between two awaits runs without        *)
(* interruption, a file-system call takes effect in one piece, and the     *)
(* other process may run between any two of them.                          *)

RaceNames == {work, dev}

At(c, pc, i) == [c EXCEPT !.pc = pc, !.i = i]
Fail(c, e) == [c EXCEPT !.pc = "done", !.i = 0, !.err = e]

\* the metadata createProfile stores for name
metadataOf(name, now) ==
    [key |-> name, name |-> name, createdAt |-> toISOString(now), shellAlias |-> name]

\* a variant of the write of saveProfileMetadata that reads the document
\* again when it writes
saveWriteAtomic(f, c, now) ==
    writeJson(f, profilesConfig,
              [loadProfilesConfig(f) EXCEPT !.profiles = setKey(@, c.id, metadataOf(c.id, now))])

\* the write of saveProfileMetadata: the document as this call read it, with
\* its own key set
saveWrite(f, c, now) ==
    writeJson(f, profilesConfig,
              [c.config EXCEPT !.profiles = setKey(@, c.id, metadataOf(c.id, now))])

\* the write of removeProfileMetadata
removeWrite(f, c) ==
    writeJson(f, profilesConfig, [c.config EXCEPT !.profiles = deleteKey(@, c.id)])

\* the read of loadProfilesConfig and the member access that follows it
loadStep(f, c) ==
    LET config == loadProfilesConfig(f)
    IN IF config.k # "doc" THEN Fail(c, "TypeError")
       ELSE [c EXCEPT !.pc = "write", !.config = config]

\* one step of createProfile(c.id) by a process in state c
createStep(f, c, now) ==
    LET name == c.id
        profilePath == getProfilePath(name)
        source == SourceOf[c.i]
        target == TargetOf[name][c.i]
    IN CASE c.pc = "start" ->
              [fs |-> f,
               call |-> IF ~isValidProfileName(name) THEN Fail(c, "InvalidName")
                        ELSE IF existsSync(f, profilePath) THEN Fail(c, "AlreadyExists")
                        ELSE IF ~existsSync(f, mainConfig) THEN Fail(c, "BaseNotConfigured")
                        ELSE At(c, "mkdir", 0)]
         [] c.pc = "mkdir" ->
              [fs |-> mkdirRecursive(f, profilePath), call |-> At(c, "item", 1)]
         [] c.pc = "item" ->
              [fs |-> f,
               call |-> IF c.i > Len(sharedItems) THEN At(c, "load", 0)
                        ELSE IF ~existsSync(f, source)
                        THEN IF sharedItems[c.i].required
                             THEN Fail(c, "MissingRequiredSharedResource")
                             ELSE At(c, "item", c.i + 1)
                        ELSE IF existsSync(f, target)
                        THEN IF isSymbolicLink(f, target)
                             THEN At(c, "item", c.i + 1)
                             ELSE At(c, "rm", c.i)
                        ELSE At(c, "symlink", c.i)]
         [] c.pc = "rm" ->
              [fs |-> rmRecursive(f, target), call |-> At(c, "symlink", c.i)]
         [] c.pc = "symlink" ->
              LET r == symlink(f, source, target)
              IN IF r.err # "none" THEN [fs |-> f, call |-> Fail(c, r.err)]
                 ELSE [fs |-> r.fs, call |-> At(c, "item", c.i + 1)]
         [] c.pc = "load" ->
              [fs |-> f, call |-> loadStep(f, c)]
         [] c.pc = "write" ->
              [fs |-> saveWrite(f, c, now), call |-> At(c, "done", 0)]

\* a variant of removeProfile that deletes the directory before it detaches
\* the links
removeStepDirectoryFirst(f, c) ==
    LET name == c.id
        profilePath == getProfilePath(name)
        credentialsPath == getProfileCredentialsPath(name)
        target == TargetOf[name][c.i]
    IN CASE c.pc = "start" ->
              [fs |-> f,
               call |-> IF ~existsSync(f, profilePath) THEN Fail(c, "NotFound")
                        ELSE At(c, "rmdir", 0)]
         [] c.pc = "rmdir" ->
              [fs |-> rmRecursive(f, profilePath), call |-> At(c, "item", 1)]
         [] c.pc = "item" ->
              [fs |-> f,
               call |-> IF c.i > Len(sharedItems) THEN At(c, "credentials", 0)
                        ELSE IF existsSync(f, target) /\ isSymbolicLink(f, target)
                        THEN At(c, "unlink", c.i)
                        ELSE At(c, "item", c.i + 1)]
         [] c.pc = "unlink" ->
              IF target \notin DOMAIN f THEN [fs |-> f, call |-> Fail(c, "ENOENT")]
              ELSE [fs |-> unlink(f, target), call |-> At(c, "item", c.i + 1)]
         [] c.pc = "credentials" ->
              [fs |-> f,
               call |-> IF existsSync(f, credentialsPath) THEN At(c, "rmcredentials", 0)
                        ELSE At(c, "load", 0)]
         [] c.pc = "rmcredentials" ->
              IF credentialsPath \notin DOMAIN f THEN [fs |-> f, call |-> Fail(c, "ENOENT")]
              ELSE [fs |-> unlink(f, credentialsPath), call |-> At(c, "load", 0)]
         [] c.pc = "load" ->
              [fs |-> f, call |-> loadStep(f, c)]
         [] c.pc = "write" ->
              [fs |-> removeWrite(f, c), call |-> At(c, "done", 0)]

\* one step of removeProfile(c.id) by a process in state c
removeStep(f, c) ==
    LET name == c.id
        profilePath == getProfilePath(name)
        credentialsPath == getProfileCredentialsPath(name)
        target == TargetOf[name][c.i]
    IN CASE c.pc = "start" ->
              [fs |-> f,
               call |-> IF ~existsSync(f, profilePath) THEN Fail(c, "NotFound")
                        ELSE At(c, "item", 1)]
         [] c.pc = "item" ->
              [fs |-> f,
               call |-> IF c.i > Len(sharedItems) THEN At(c, "rmdir", 0)
                        ELSE IF existsSync(f, target) /\ isSymbolicLink(f, target)
                        THEN At(c, "unlink", c.i)
                        ELSE At(c, "item", c.i + 1)]
         [] c.pc = "unlink" ->
              IF target \notin DOMAIN f THEN [fs |-> f, call |-> Fail(c, "ENOENT")]
              ELSE [fs |-> unlink(f, target), call |-> At(c, "item", c.i + 1)]
         [] c.pc = "rmdir" ->
              [fs |-> rmRecursive(f, profilePath), call |-> At(c, "credentials", 0)]
         [] c.pc = "credentials" ->
              [fs |-> f,
               call |-> IF existsSync(f, credentialsPath) THEN At(c, "rmcredentials", 0)
                        ELSE At(c, "load", 0)]
         [] c.pc = "rmcredentials" ->
              IF credentialsPath \notin DOMAIN f THEN [fs |-> f, call |-> Fail(c, "ENOENT")]
              ELSE [fs |-> unlink(f, credentialsPath), call |-> At(c, "load", 0)]
         [] c.pc = "load" ->
              [fs |-> f, call |-> loadStep(f, c)]
         [] c.pc = "write" ->
              [fs |-> removeWrite(f, c), call |-> At(c, "done", 0)]

\* the shared root with every varied item, and the same home after
\* createProfile("work")
RaceRoot == Overlay(homeOnly, sharedRoot(VariedItems))

InitRace ==
    /\ fs \in {RaceRoot, createProfile(RaceRoot, work, 0).fs}
    /\ clock = 0
    /\ shellEnv \in RegistryShellEnvs
    /\ last = NoOp
    /\ calls = NoCalls

\* process p runs `cc-profiles create id` / `cc-profiles remove id`
StartCreate(p, id) ==
    /\ calls[p].pc = "idle"
    /\ calls' = [calls EXCEPT ![p] = [Idle EXCEPT !.op = "create", !.id = id, !.pc = "start"]]
    /\ UNCHANGED <<fs, clock, shellEnv, last>>

StartRemove(p, id) ==
    /\ calls[p].pc = "idle"
    /\ calls' = [calls EXCEPT ![p] = [Idle EXCEPT !.op = "remove", !.id = id, !.pc = "start"]]
    /\ UNCHANGED <<fs, clock, shellEnv, last>>

StepCreate(p) ==
    /\ calls[p].op = "create"
    /\ calls[p].pc \notin {"idle", "done"}
    /\ LET r == createStep(fs, calls[p], clock)
       IN /\ fs' = r.fs
          /\ calls' = [calls EXCEPT ![p] = r.call]
    /\ UNCHANGED <<clock, shellEnv, last>>

StepRemove(p) ==
    /\ calls[p].op = "remove"
    /\ calls[p].pc \notin {"idle", "done"}
    /\ LET r == removeStep(fs, calls[p])
       IN /\ fs' = r.fs
          /\ calls' = [calls EXCEPT ![p] = r.call]
    /\ UNCHANGED <<clock, shellEnv, last>>

NextRace ==
    \/ \E p \in Procs, id \in RaceNames : StartCreate(p, id)
    \/ \E p \in Procs, id \in RaceNames : StartRemove(p, id)
    \/ \E p \in Procs : StepCreate(p)
    \/ \E p \in Procs : StepRemove(p)

SpecRace == InitRace /\ [][NextRace]_vars

----------------------------------------------------------------------------
(* One invocation of removeProfile, await by await, while the user logs in *)
(* under the profile or deletes its directory by hand                      *)

\* the home after createProfile("work"), as it is, after a login under the
\* profile, and with a metadata document that holds no profiles member
InitOrder ==
    /\ \E f \in {createProfile(RaceRoot, work, 0).fs} :
          \E g \in {f, writeFile(f, getProfileCredentialsPath(work), OpaqueText("credentials"))} :
             fs \in {g, writeFile(g, profilesConfig, ObjectJson)}
    /\ clock = 0
    /\ shellEnv = <<"/", "b", "i", "n", "/", "z", "s", "h">>
    /\ last = NoOp
    /\ calls = NoCalls

NextOrder ==
    \/ \E id \in RaceNames : StartRemove(1, id)
    \/ StepRemove(1)
    \/ \E id \in RaceNames : EnvLogin(id)
    \/ \E id \in RaceNames : EnvDeleteProfileDir(id)

SpecOrder == InitOrder /\ [][NextOrder]_vars

----------------------------------------------------------------------------
(* The link manager alone, over profile directories that hold links,       *)
(* regular entries and entries of their own, and a shared root that loses  *)
(* items                                                                   *)

LinkNames == {work, dev}

\* an entry of the profile directory that is no shared item
privateEntry(name) == join(getProfilePath(name), <<"h", "i", "s", "t", "o", "r", "y">>)

\* the profile directory of name with an entry of its own
profileDir(name) ==
    [p \in {getProfilePath(name), privateEntry(name)} |->
        IF p = getProfilePath(name) THEN DirNode ELSE FileNode(OpaqueText("history"))]

\* work has a directory, dev has none
InitLinks ==
    /\ \E f \in InitSharedRoots : fs = Overlay(f, profileDir(work))
    /\ clock = 0
    /\ shellEnv \in RegistryShellEnvs
    /\ last = NoOp
    /\ calls = NoCalls

\* the user puts a regular file or a directory of their own where the i-th
\* shared item would be linked
EnvPutEntry(id, i) ==
    LET target == TargetOf[id][i]
    IN /\ getProfilePath(id) \in DOMAIN fs
       /\ target \notin DOMAIN fs
       /\ fs' = IF sharedItems[i].type = "directory"
                THEN writeFile(mkdirRecursive(fs, target),
                               join(target, <<"a", ".", "m", "d">>), OpaqueText("own"))
                ELSE writeFile(fs, target, OpaqueText("own"))
       /\ last' = NoOp
       /\ UNCHANGED <<clock, shellEnv, calls>>

\* the i-th shared item is deleted from the shared root
EnvRemoveShared(i) ==
    /\ SourceOf[i] \in DOMAIN fs
    /\ fs' = rmRecursive(fs, SourceOf[i])
    /\ last' = NoOp
    /\ UNCHANGED <<clock, shellEnv, calls>>

NextLinks ==
    \/ \E id \in LinkNames : CreateLinks(id)
    \/ \E id \in LinkNames : RemoveLinks(id)
    \/ \E id \in LinkNames : VerifyLinks(id)
    \/ \E id \in LinkNames : GetLinkStatus(id)
    \/ \E id \in LinkNames, i \in VariedItems : EnvPutEntry(id, i)
    \/ \E i \in VariedItems : EnvRemoveShared(i)

SpecLinks == InitLinks /\ [][NextLinks]_vars

----------------------------------------------------------------------------
(* The validator alone, over short strings of every kind, the reserved     *)
(* words in several spellings, and strings around the length limit         *)

\* a lowercase letter, an uppercase letter, a digit, the hyphen and a
\* character outside the pattern's classes
NameAlphabet == {"a", "A", "1", "-", "_"}

RECURSIVE StringsUpTo(_)
StringsUpTo(n) ==
    IF n = 0 THEN {<<>>}
    ELSE LET shorter == StringsUpTo(n - 1)
         IN shorter \cup {Append(t, c) : t \in {u \in shorter : Len(u) = n - 1}, c \in NameAlphabet}

Repeat(c, n) == [i \in 1..n |-> c]

capitalize(w) == [i \in 1..Len(w) |-> IF i = 1 THEN upperLetters[CHOOSE k \in 1..Len(lowerLetters) : lowerLetters[k] = w[1]] ELSE w[i]]

\* the reserved words, as they are, capitalised, with a suffix
ReservedSpellings ==
    UNION {{w, capitalize(w), Append(w, "1")} : w \in Range(RESERVED_NAMES)}

\* strings of one less than, exactly and one more than the longest length:
\* well-formed, with an uppercase letter at the end, with a digit in front
LongNames ==
    UNION {{Repeat("a", n),
            Append(Repeat("a", n - 1), "A"),
            <<"1">> \o Repeat("a", n - 1),
            Append(Repeat("a", n - 1), "-")} :
           n \in (MAX_PROFILE_NAME_LENGTH - 1)..(MAX_PROFILE_NAME_LENGTH + 1)}

ValidatorInputs == StringsUpTo(MaxNameLen) \cup ReservedSpellings \cup LongNames \cup Identifiers

InitValidate ==
    /\ fs = homeOnly
    /\ clock = 0
    /\ shellEnv = <<"/", "b", "i", "n", "/", "z", "s", "h">>
    /\ last = NoOp
    /\ calls = NoCalls

IsValid(name) ==
    /\ last' = Done("isValid", name, "none", isValidProfileName(name))
    /\ UNCHANGED <<fs, clock, shellEnv, calls>>

Explain(name) ==
    /\ last' = Done("explain", name, "none", getProfileNameError(name))
    /\ UNCHANGED <<fs, clock, shellEnv, calls>>

NextValidate ==
    \/ \E name \in ValidatorInputs : IsValid(name)
    \/ \E name \in ValidatorInputs : Explain(name)

SpecValidate == InitValidate /\ [][NextValidate]_vars

----------------------------------------------------------------------------
(* The registry while time passes: profiles are created at different times *)

InitTimed ==
    /\ fs = RaceRoot
    /\ clock = 0
    /\ shellEnv = <<"/", "b", "i", "n", "/", "z", "s", "h">>
    /\ last = NoOp
    /\ calls = NoCalls

NextTimed ==
    \/ \E id \in RaceNames : Create(id)
    \/ \E id \in RaceNames : Remove(id)
    \/ List
    \/ \E id \in RaceNames : EnvDeleteProfileDir(id)
    \/ Tick

SpecTimed == InitTimed /\ [][NextTimed]_vars

----------------------------------------------------------------------------
(* The shell integration: the startup file of each shell family, with      *)
(* content of the user's own, and the generated artifact                   *)

\* what the user writes into a startup file
UserPieces == {userText, userMention, "\n", " "}

RECURSIVE TextsUpTo(_)
TextsUpTo(n) ==
    IF n = 0 THEN {<<>>}
    ELSE LET shorter == TextsUpTo(n - 1)
         IN shorter \cup {Append(t, c) : t \in {u \in shorter : Len(u) = n - 1}, c \in UserPieces}

\* the startup files a shell may have
RcCandidates(env) ==
    {detectShell(homeOnly, env).rcFile} \cup
    (IF detectShell(homeOnly, env).type = "bash"
     THEN {join(HOME, <<".", "b", "a", "s", "h", "_", "p", "r", "o", "f", "i", "l", "e">>)}
     ELSE {})

InitShell ==
    /\ shellEnv \in ShellEnvs
    /\ \/ fs = homeOnly
       \/ \E p \in RcCandidates(shellEnv), t \in TextsUpTo(MaxRc) :
             fs = writeFile(mkdirRecursive(homeOnly, SubSeq(p, 1, Len(p) - 1)), p, RcText(t))
    /\ clock = 0
    /\ last = NoOp
    /\ calls = NoCalls

Setup ==
    /\ fs' = setupShellIntegration(fs, shellEnv)
    /\ last' = Done("setup", <<>>, "none", detectShell(fs, shellEnv).rcFile)
    /\ UNCHANGED <<clock, shellEnv, calls>>

Teardown ==
    /\ fs' = removeShellIntegration(fs, shellEnv)
    /\ last' = Done("teardown", <<>>, "none", <<>>)
    /\ UNCHANGED <<clock, shellEnv, calls>>

IsIntegrated ==
    /\ last' = Done("isIntegrated", <<>>, "none", isShellIntegrated(fs, shellEnv))
    /\ UNCHANGED <<fs, clock, shellEnv, calls>>

\* the user adds a line of their own, or an empty line, after the block
EnvAppend(piece) ==
    LET rcFile == detectShell(fs, shellEnv).rcFile
    IN /\ rcFile \in DOMAIN fs
       /\ INTEGRATION_MARKER \in Range(fs[rcFile].content.lines)
       /\ Len(fs[rcFile].content.lines) < MaxRc + 6 + MaxAppend
       /\ fs' = writeFile(fs, rcFile, RcText(Append(fs[rcFile].content.lines, piece)))
       /\ last' = NoOp
       /\ UNCHANGED <<clock, shellEnv, calls>>

NextShell ==
    \/ Setup
    \/ Teardown
    \/ IsIntegrated
    \/ \E l \in {<<>>, <<work>>} : Regenerate(l)
    \/ \E piece \in {userText, "\n"} : EnvAppend(piece)

SpecShell == InitShell /\ [][NextShell]_vars

----------------------------------------------------------------------------
(* The interactive mode: the menu loop of one process and the commands it  *)
(* runs.  A command returns to the loop, ends the process with             *)
(* process.exit(1), or throws through the loop, which ends the process too. *)

\* checkClaudeInstallation().isConfigured
isConfigured(f) == existsSync(f, mainConfig) /\ existsSync(f, mainCredentials)

Returned(f) == [fs |-> f, end |-> "returned", err |-> "none"]
Exited(f, e) == [fs |-> f, end |-> "exit", err |-> e]
Threw(f, e) == [fs |-> f, end |-> "threw", err |-> e]

\* the answer of a prompt that was cancelled
Cancelled == <<"^", "C">>

\* runCreate after syncAliases, in the home f1 it left: the question about
\* the shell integration, integrate the answer to it
runCreateIntegrate(f1, env, integrate) ==
    IF ~isShellIntegrated(f1, env) /\ integrate
    THEN Returned(setupShellIntegration(f1, env))
    ELSE Returned(f1)

\* runCreate after createProfile, r what it returned or threw
runCreateSync(r, env, integrate, now) ==
    IF r.err # "none" THEN Exited(r.fs, r.err)
    ELSE CHOOSE out \in {runCreateIntegrate(f1, env, integrate) :
                            f1 \in {syncAliases(r.fs, env, now)}} : TRUE

\* runCreate() without a name: the name is what promptProfileName returned
runCreate(f, env, name, integrate, now) ==
    LET existing == listProfiles(f)
    IN IF ~isConfigured(f) THEN Exited(f, "NotConfigured")
       ELSE IF existing.err # "none" THEN Threw(f, existing.err)
       ELSE IF name = Cancelled THEN Returned(f)
       ELSE CHOOSE out \in {runCreateSync(r, env, integrate, now) :
                               r \in {createProfile(f, name, now)}} : TRUE

\* the names promptProfileName(existing) accepts
promptAccepts(existing, name) ==
    \/ name = Cancelled
    \/ /\ getProfileNameError(name) = NoMessage
       /\ \A i \in 1..Len(existing) : existing[i].name # name

\* a variant of runRemove that removes without the confirmation
runRemoveUnconfirmed(f, env, selected, confirmed, now) ==
    LET profiles == listProfiles(f)
        r == removeProfile(f, selected)
    IN IF profiles.err # "none" THEN Threw(f, profiles.err)
       ELSE IF Len(profiles.ret) = 0 THEN Returned(f)
       ELSE IF selected = Cancelled THEN Returned(f)
       ELSE IF r.err # "none" THEN Exited(r.fs, r.err)
       ELSE Returned(syncAliases(r.fs, env, now))

\* runRemove() without a name: selected is what selectProfile returned,
\* confirmed the answer of confirmRemove
runRemove(f, env, selected, confirmed, now) ==
    LET profiles == listProfiles(f)
        r == removeProfile(f, selected)
    IN IF profiles.err # "none" THEN Threw(f, profiles.err)
       ELSE IF Len(profiles.ret) = 0 THEN Returned(f)
       ELSE IF selected = Cancelled THEN Returned(f)
       ELSE IF ~confirmed THEN Returned(f)
       ELSE IF r.err # "none" THEN Exited(r.fs, r.err)
       ELSE Returned(syncAliases(r.fs, env, now))

\* runRemove(providedName): confirmed the answer of confirmRemove
runRemoveNamed(f, env, providedName, confirmed, now) ==
    LET profiles == listProfiles(f)
        r == removeProfile(f, providedName)
    IN IF profiles.err # "none" THEN Threw(f, profiles.err)
       ELSE IF Len(profiles.ret) = 0 THEN Returned(f)
       ELSE IF ~profileExists(f, providedName) THEN Exited(f, "NotFound")
       ELSE IF ~confirmed THEN Returned(f)
       ELSE IF r.err # "none" THEN Exited(r.fs, r.err)
       ELSE Returned(syncAliases(r.fs, env, now))

\* the profiles selectProfile(profiles) offers
selectOffers(profiles, selected) ==
    \/ selected = Cancelled
    \/ \E i \in 1..Len(profiles) : profiles[i].name = selected

runList(f) ==
    LET profiles == listProfiles(f)
    IN IF profiles.err # "none" THEN Threw(f, profiles.err)
       ELSE Returned(f)

\* the process in interactive mode: before the first menu, at the menu, gone
Session(pc) == [Idle EXCEPT !.op = "interactive", !.pc = pc]

InitInteractive ==
    /\ \E f \in InitSharedRoots :
          \/ fs = f
          \/ \E d \in InitDocuments : fs = writeFile(f, profilesConfig, d)
    /\ clock = 0
    /\ shellEnv \in RegistryShellEnvs
    /\ last = NoOp
    /\ calls = [NoCalls EXCEPT ![1] = Session("start")]

\* the loop goes on after a command that returned, the process is gone after
\* one that exited or threw
After(r) == [calls EXCEPT ![1] = Session(IF r.end = "returned" THEN "menu" ELSE "exited")]

StartInteractive ==
    /\ calls[1].pc = "start"
    /\ calls' = [calls EXCEPT ![1] = Session(IF isConfigured(fs) THEN "menu" ELSE "exited")]
    /\ last' = Done("start", <<>>, IF isConfigured(fs) THEN "none" ELSE "NotConfigured", <<>>)
    /\ UNCHANGED <<fs, clock, shellEnv>>

MenuCreate(name, integrate) ==
    /\ calls[1].pc = "menu"
    /\ LET existing == listProfiles(fs)
       IN existing.err = "none" => promptAccepts(existing.ret, name)
    /\ LET r == runCreate(fs, shellEnv, name, integrate, clock)
       IN /\ fs' = r.fs
          /\ calls' = After(r)
          /\ last' = Done("runCreate", name, r.err, r.end)
    /\ UNCHANGED <<clock, shellEnv>>

MenuRemove(selected, confirmed) ==
    /\ calls[1].pc = "menu"
    /\ LET profiles == listProfiles(fs)
       IN profiles.err = "none" => selectOffers(profiles.ret, selected)
    /\ LET r == runRemove(fs, shellEnv, selected, confirmed, clock)
       IN /\ fs' = r.fs
          /\ calls' = After(r)
          /\ last' = Done("runRemove", selected, r.err, r.end)
    /\ UNCHANGED <<clock, shellEnv>>

MenuList ==
    /\ calls[1].pc = "menu"
    /\ LET r == runList(fs)
       IN /\ calls' = After(r)
          /\ last' = Done("runList", <<>>, r.err, r.end)
    /\ UNCHANGED <<fs, clock, shellEnv>>

\* the user chooses Exit, or cancels the menu
MenuExit ==
    /\ calls[1].pc = "menu"
    /\ calls' = [calls EXCEPT ![1] = Session("exited")]
    /\ last' = Done("exit", <<>>, "none", "returned")
    /\ UNCHANGED <<fs, clock, shellEnv>>

NextInteractive ==
    \/ StartInteractive
    \/ \E name \in RaceNames \cup {Cancelled}, integrate \in BOOLEAN : MenuCreate(name, integrate)
    \/ \E selected \in RaceNames \cup {Cancelled}, confirmed \in BOOLEAN : MenuRemove(selected, confirmed)
    \/ MenuList
    \/ MenuExit
    \/ \E id \in RaceNames : EnvDeleteProfileDir(id)

SpecInteractive == InitInteractive /\ [][NextInteractive]_vars

----------------------------------------------------------------------------
(* The remove command, one invocation of the tool each time, among creates *)
(* that succeed or fail at the linking stage                               *)

\* `cc-profiles remove name`, confirmed or not
RemoveNamed(name, confirmed) ==
    /\ LET r == runRemoveNamed(fs, shellEnv, name, confirmed, clock)
       IN /\ fs' = r.fs
          /\ last' = Done("runRemove", name, r.err, [named |-> TRUE, confirmed |-> confirmed])
    /\ UNCHANGED <<clock, shellEnv, calls>>

\* `cc-profiles remove`: the user selects a profile or cancels, and confirms
\* or not
RemoveSelected(selected, confirmed) ==
    /\ LET profiles == listProfiles(fs)
       IN profiles.err = "none" => selectOffers(profiles.ret, selected)
    /\ LET r == runRemove(fs, shellEnv, selected, confirmed, clock)
       IN /\ fs' = r.fs
          /\ last' = Done("runRemove", selected, r.err, [named |-> FALSE, confirmed |-> confirmed])
    /\ UNCHANGED <<clock, shellEnv, calls>>

NextRemove ==
    \/ \E id \in RaceNames : Create(id)
    \/ \E name \in RaceNames, confirmed \in BOOLEAN : RemoveNamed(name, confirmed)
    \/ \E selected \in RaceNames \cup {Cancelled}, confirmed \in BOOLEAN :
          RemoveSelected(selected, confirmed)
    \/ \E id \in RaceNames : EnvLogin(id)
    \/ SyncFromStore

SpecRemove == Init /\ [][NextRemove]_vars

----------------------------------------------------------------------------
(* The registry over a Metadata Document that becomes unparseable: a write *)
(* cut short, or an edit by hand that breaks the JSON                      *)

InitCorrupt ==
    /\ fs = RaceRoot
    /\ clock = 0
    /\ shellEnv \in RegistryShellEnvs
    /\ last = NoOp
    /\ calls = NoCalls

\* the Metadata Document file now holds text that JSON.parse throws on
EnvCorruptDocument ==
    /\ profilesConfig \in DOMAIN fs
    /\ fs[profilesConfig].content # GarbageText
    /\ fs' = writeFile(fs, profilesConfig, GarbageText)
    /\ last' = NoOp
    /\ UNCHANGED <<clock, shellEnv, calls>>

NextCorrupt ==
    \/ \E id \in RaceNames : Create(id)
    \/ List
    \/ SyncFromStore
    \/ EnvCorruptDocument

SpecCorrupt == InitCorrupt /\ [][NextCorrupt]_vars

----------------------------------------------------------------------------
(* What the properties below read off a state *)

\* the node at a path, or nothing
NodeAt(f, p) == IF p \in DOMAIN f THEN <<f[p]>> ELSE <<>>

\* the profile mapping of the Metadata Document; empty when the file is
\* missing or holds no document with a profile mapping
DocProfiles(f) ==
    LET config == loadProfilesConfig(f)
    IN IF config.k = "doc" THEN config.profiles ELSE <<>>

DocKeys(f) == Keys(DocProfiles(f))

\* the places in a generated file of the lines made from the templates of tpls
Positions(lines, tpls) ==
    SelectSeq([i \in 1..Len(lines) |-> i], LAMBDA i : lines[i].tpl \in tpls)

\* the first line of an invocation block, the line of it that sets the
\* configuration-directory pointer, the first line of the listing block, and
\* the line of it that echoes one identifier
InvocationOpen == {"%() {", "function %"}
PointerLine == {"    CLAUDE_CONFIG_DIR=\"$HOME/.claude-%\" command claude \"$@\"",
                "    set -x CLAUDE_CONFIG_DIR \"$HOME/.claude-%\""}
ListingOpen == {"cc-list() {", "function cc-list"}
EchoLine == {"    echo \"  %\""}

\* the identifiers that have an invocation block, in the order of the file
InvocationNames(lines) ==
    LET at == Positions(lines, InvocationOpen)
    IN [k \in 1..Len(at) |-> lines[at[k]].arg]

----------------------------------------------------------------------------
(* C1 *)

\* C1: no operation writes to, unlinks or deletes an entry of the shared
\* configuration root: every entry under ~/.claude is there, unchanged, after
\* every step.  Violated: remove("x/../.claude") resolves the private
\* directory to ~/.claude itself and deletes it recursively.
C1_SharedRootUntouched ==
    [][\A p \in DOMAIN fs :
          IsPrefix(mainConfig, p) => (p \in DOMAIN fs' /\ fs'[p] = fs[p])]_vars

----------------------------------------------------------------------------
(* C2 *)

\* C2: after a create(id) that succeeded, the private directory exists; every
\* shared item whose source exists is, in the profile, a symbolic link to
\* that source, and no entry exists for an absent one; the Metadata Document
\* has key id with name = id and shellAlias = id; verifyLinks(id) is true.
C2_CreatePostcondition ==
    (last.op = "create" /\ last.err = "none") =>
        LET id == last.id IN
        /\ NodeAt(fs, getProfilePath(id)) = <<DirNode>>
        /\ \A i \in 1..Len(sharedItems) :
              IF existsSync(fs, SourceOf[i])
              THEN NodeAt(fs, TargetOf[id][i]) = <<LinkNode(SourceOf[i])>>
              ELSE TargetOf[id][i] \notin DOMAIN fs
        /\ \E k \in 1..Len(DocProfiles(fs)) :
              /\ DocProfiles(fs)[k].key = id
              /\ DocProfiles(fs)[k].name = id
              /\ DocProfiles(fs)[k].shellAlias = id
        /\ verifySymlinks(fs, id)

\* a create has succeeded where the shared root holds an optional item too
C2_Witness ==
    /\ last.op = "create" /\ last.err = "none"
    /\ \E i \in 1..Len(sharedItems) :
          ~sharedItems[i].required /\ existsSync(fs, SourceOf[i])
    /\ \E i \in 1..Len(sharedItems) : ~existsSync(fs, SourceOf[i])

----------------------------------------------------------------------------
(* C3 *)

\* C3: after a remove(id) that found the private directory, the directory
\* and the credentials file .claude-<id>.json do not exist, the Metadata
\* Document has no key id, and list() does not return id.
C3_RemovePostcondition ==
    (last.op = "remove" /\ last.err # "NotFound") =>
        /\ getProfilePath(last.id) \notin DOMAIN fs
        /\ getProfileCredentialsPath(last.id) \notin DOMAIN fs
        /\ ~HasKey(DocProfiles(fs), last.id)
        /\ \A k \in 1..Len(listProfiles(fs).ret) :
              listProfiles(fs).ret[k].name # last.id

\* a profile has been removed without error while another is still listed
C3_Witness ==
    /\ last.op = "remove" /\ last.err = "none"
    /\ isValidProfileName(last.id)
    /\ Len(listProfiles(fs).ret) >= 1

----------------------------------------------------------------------------
(* C4 *)

\* a create(id) step for a valid id without private directory, the shared
\* root being there without settings.json
C4_Case ==
    /\ last'.op = "create"
    /\ isValidProfileName(last'.id)
    /\ ~existsSync(fs, getProfilePath(last'.id))
    /\ existsSync(fs, mainConfig)
    /\ ~existsSync(fs, SourceOf[1])

\* C4 as stated: such a create fails with the missing-required-shared-resource
\* error and the Metadata Document has no entry for id afterwards.  Violated
\* when the document held a stale entry for id before the call.
C4_NoEntryAfterwards ==
    [][C4_Case =>
          /\ last'.err = "MissingRequiredSharedResource"
          /\ ~HasKey(DocProfiles(fs'), last'.id)]_vars

\* C4 as amended: such a create fails with the missing-required-shared-resource
\* error and does not write the Metadata Document: the file is the same after
\* the call as before.
C4_DocumentNotWritten ==
    [][C4_Case =>
          /\ last'.err = "MissingRequiredSharedResource"
          /\ NodeAt(fs', profilesConfig) = NodeAt(fs, profilesConfig)]_vars

\* such a create has failed, for an id the document holds a stale entry of
C4_Witness ==
    /\ last.op = "create" /\ last.err = "MissingRequiredSharedResource"
    /\ HasKey(DocProfiles(fs), last.id)

----------------------------------------------------------------------------
(* C5 *)

\* C5: create(id) checks identifier validity, then the existence of the
\* private directory, then the existence of the shared root; the first check
\* that fails decides the error, and a create failing one of them changes
\* nothing in the file system.
C5_CheckOrder ==
    [][last'.op = "create" =>
          LET id == last'.id IN
          /\ ~isValidProfileName(id) => last'.err = "InvalidName"
          /\ (isValidProfileName(id) /\ existsSync(fs, getProfilePath(id)))
                => last'.err = "AlreadyExists"
          /\ (isValidProfileName(id) /\ ~existsSync(fs, getProfilePath(id))
                /\ ~existsSync(fs, mainConfig))
                => last'.err = "BaseNotConfigured"
          /\ last'.err \in {"InvalidName", "AlreadyExists", "BaseNotConfigured"}
                => fs' = fs]_vars

\* a create was rejected as invalid although the private directory of the
\* identifier exists
C5_Witness ==
    /\ last.op = "create" /\ last.err = "InvalidName"
    /\ existsSync(fs, getProfilePath(last.id))

----------------------------------------------------------------------------
(* C6 *)

\* C6: remove(id) fails with NotFound whenever the private directory of id
\* does not exist, and then changes nothing in the file system.
C6_RemoveNotFound ==
    [][(last'.op = "remove" /\ ~existsSync(fs, getProfilePath(last'.id))) =>
          (last'.err = "NotFound" /\ fs' = fs)]_vars

\* a remove has failed with NotFound while the document has an entry for the
\* identifier and its credentials file exists
C6_Witness ==
    /\ last.op = "remove" /\ last.err = "NotFound"
    /\ HasKey(DocProfiles(fs), last.id)
    /\ getProfileCredentialsPath(last.id) \in DOMAIN fs

----------------------------------------------------------------------------
(* C7 *)

\* C7: list() returns exactly the entries of the Metadata Document whose
\* private directory exists, each once; and neither list() nor
\* syncFromStore() changes the Metadata Document file.
C7_LazyReconciliation ==
    [][/\ (last'.op = "list" /\ last'.err = "none") =>
             LET returned == {last'.ret[k].name : k \in 1..Len(last'.ret)}
                 present == {n \in Range(DocKeys(fs)) : existsSync(fs, getProfilePath(n))}
             IN returned = present /\ Len(last'.ret) = Cardinality(present)
       /\ last'.op \in {"list", "syncFromStore"} =>
             NodeAt(fs', profilesConfig) = NodeAt(fs, profilesConfig)]_vars

\* list() has returned a profile while the document also holds an entry
\* whose directory is gone
C7_Witness ==
    /\ last.op = "list" /\ last.err = "none"
    /\ Len(last.ret) >= 1
    /\ \E n \in Range(DocKeys(fs)) : getProfilePath(n) \notin DOMAIN fs

----------------------------------------------------------------------------
(* C8 *)

\* C8: a remove(id) issued for a stale entry (id is a key of the document,
\* its private directory does not exist) removes the entry from the
\* document.  Violated: that remove fails with NotFound before it reaches
\* the document.
C8_RemovePurgesStale ==
    [][(/\ last'.op = "remove"
        /\ HasKey(DocProfiles(fs), last'.id)
        /\ ~existsSync(fs, getProfilePath(last'.id)))
          => ~HasKey(DocProfiles(fs'), last'.id)]_vars

----------------------------------------------------------------------------
(* C9 *)

\* C9: right after syncFromStore() the launcher artifact has an invocation
\* block for exactly the keys of the Metadata Document, and does not exist
\* when the document has no keys, is missing or cannot be read.
C9_SyncMatchesDocument ==
    last.op = "syncFromStore" =>
        LET keys == DocKeys(fs)
            artifact == getAliasesFilePath(fs, shellEnv)
        IN IF keys = <<>> THEN artifact \notin DOMAIN fs
           ELSE /\ artifact \in DOMAIN fs
                /\ fs[artifact].kind = "file"
                /\ Range(InvocationNames(fs[artifact].content.lines)) = Range(keys)
                /\ Len(InvocationNames(fs[artifact].content.lines)) = Len(keys)

\* a sync has run with two profiles in the document
C9_Witness ==
    /\ last.op = "syncFromStore"
    /\ Len(DocKeys(fs)) = 2

----------------------------------------------------------------------------
(* C10 *)

\* C10: regenerate(L) with L not empty writes an artifact with one invocation
\* block per element of L, in the order of L, each setting the
\* configuration-directory pointer for that identifier, followed by one
\* listing block that echoes the elements of L in the same order.
C10_RegenerateBlocks ==
    (last.op = "regenerate" /\ last.id # <<>>) =>
        LET L == last.id
            artifact == getAliasesFilePath(fs, shellEnv)
            lines == fs[artifact].content.lines
            opens == Positions(lines, InvocationOpen)
            listing == Positions(lines, ListingOpen)
            echoes == Positions(lines, EchoLine)
        IN /\ artifact \in DOMAIN fs
           /\ Len(opens) = Len(L)
           /\ \A k \in 1..Len(opens) :
                 /\ lines[opens[k]].arg = L[k]
                 /\ lines[opens[k] + 1].tpl \in PointerLine
                 /\ lines[opens[k] + 1].arg = L[k]
           /\ Len(Positions(lines, PointerLine)) = Len(L)
           /\ Len(listing) = 1
           /\ \A k \in 1..Len(opens) : opens[k] < listing[1]
           /\ Len(echoes) = Len(L)
           /\ \A k \in 1..Len(echoes) :
                 echoes[k] > listing[1] /\ lines[echoes[k]].arg = L[k]

\* regenerate has run with a list of different identifiers
C10_Witness ==
    /\ last.op = "regenerate"
    /\ Len(last.id) >= 2
    /\ last.id[1] # last.id[2]


----------------------------------------------------------------------------
(* C11 *)

\* the lines of a generated file other than the one carrying the timestamp
Blocks(lines) == SelectSeq(lines, LAMBDA l : l.tpl # "# Generated: %")

\* the generated file in a file system, or nothing
Artifact(f, env) ==
    LET p == getAliasesFilePath(f, env)
    IN IF p \in DOMAIN f THEN <<Blocks(f[p].content.lines)>> ELSE <<>>

\* C11: the artifact left by regenerate(L) depends only on L and the shell
\* family, never on what the artifact held before: it is absent when L is
\* empty, and otherwise its blocks are those regenerate(L) writes where no
\* artifact existed, at any time.
C11_RegenerateReplaces ==
    (last.op = "regenerate") =>
        LET L == last.id IN
        IF L = <<>> THEN Artifact(fs, shellEnv) = <<>>
        ELSE /\ Artifact(fs, shellEnv) # <<>>
             /\ Artifact(fs, shellEnv) =
                    Artifact(regenerateAliasesFile(homeOnly, shellEnv, L, 0), shellEnv)

\* regenerate(<<>>) has run under fish after an earlier call had written the
\* artifact (the functions directory it made is there): the artifact is gone
C11_Witness ==
    /\ last.op = "regenerate"
    /\ last.id = <<>>
    /\ fishFunctionsDir \in DOMAIN fs
    /\ Artifact(fs, shellEnv) = <<>>


----------------------------------------------------------------------------
(* C12 *)

\* both invocations have completed without an error
BothSucceeded ==
    \A p \in Procs : calls[p].pc = "done" /\ calls[p].err = "none"

\* C12: the read-modify-write of the Metadata Document is not atomic and the
\* last writer wins: the write of a create or of a remove stores the document
\* as that invocation read it, with its own key set or deleted, whatever the
\* other invocation has written since the read; so an update can be lost.
C12_LastWriterWins ==
    [][\A p \in Procs :
          (calls[p].pc = "write" /\ calls'[p].pc = "done") =>
              DocProfiles(fs') =
                  IF calls[p].op = "create"
                  THEN setKey(calls[p].config.profiles, calls[p].id,
                              metadataOf(calls[p].id, clock))
                  ELSE deleteKey(calls[p].config.profiles, calls[p].id)]_vars

\* two creates of different identifiers have both succeeded, both private
\* directories exist, and the document has an entry for only one of them
C12_Witness ==
    /\ BothSucceeded
    /\ calls[1].op = "create" /\ calls[2].op = "create"
    /\ calls[1].id # calls[2].id
    /\ \A p \in Procs : NodeAt(fs, getProfilePath(calls[p].id)) = <<DirNode>>
    /\ \E p \in Procs : calls[p].id \notin Range(DocKeys(fs))

\* a remove and a create have both succeeded, and the removed profile, its
\* directory gone, still has its entry in the document
C12_RemovedEntrySurvives ==
    /\ BothSucceeded
    /\ \E p, q \in Procs :
          /\ calls[p].op = "remove" /\ calls[q].op = "create"
          /\ calls[p].id # calls[q].id
          /\ getProfilePath(calls[p].id) \notin DOMAIN fs
          /\ calls[p].id \in Range(DocKeys(fs))


----------------------------------------------------------------------------
(* C13 *)

\* the identifiers a profile can have
ProfileNames == {n \in Names : isValidProfileName(n)}

\* the private directory of n with everything in it, its credentials file,
\* and its entry in the Metadata Document
Belongings(f, n) ==
    [dir |-> [q \in {r \in DOMAIN f : IsPrefix(getProfilePath(n), r)} |-> f[q]],
     credentials |-> NodeAt(f, getProfileCredentialsPath(n)),
     entry |-> SelectSeq(DocProfiles(f), LAMBDA e : e.key = n)]

\* what a create(id) or remove(id) step leaves alone
FrameOf(id) ==
    /\ \A n \in ProfileNames \ {id} : Belongings(fs', n) = Belongings(fs, n)
    /\ loadProfilesConfig(fs').version = loadProfilesConfig(fs).version
    /\ loadProfilesConfig(fs').defaultProfile = loadProfilesConfig(fs).defaultProfile

\* C13: run one at a time, create(id) and remove(id) leave every other
\* profile's directory, links, credentials file and metadata entry, and the
\* document's version and defaultProfile, as they were.  Violated:
\* remove("x/../.claude-work") resolves its private directory and its
\* credentials file to those of the profile work and deletes them.
C13_Frame ==
    [][last'.op \in {"create", "remove"} => FrameOf(last'.id)]_vars

\* the same for the identifiers that hold no path separator, where it holds
C13_FramePlainIdentifiers ==
    [][(last'.op \in {"create", "remove"} /\ "/" \notin Range(last'.id))
          => FrameOf(last'.id)]_vars


----------------------------------------------------------------------------
(* C14 *)

\* C14: reading the Metadata Document never fails: whatever the file holds,
\* the read yields a document with a profile mapping, so list(), create()
\* and remove() never fail because of the file's content.  Violated: a file
\* that parses to a value without a profiles member (such as {}) is returned
\* as it is, and the member access that follows throws a TypeError.
C14_ReadNeverFails ==
    (last.op \in {"list", "create", "remove"}) =>
        /\ last.err # "TypeError"
        /\ loadProfilesConfig(fs).k = "doc"

\* what holds: the read yields the empty document for a missing file, for
\* unparseable text and for JSON null, and the operations fail with a
\* TypeError exactly when the file parses to an object without profiles
C14_ReadFailsOnObjectOnly ==
    /\ readJson(fs, profilesConfig).k \in {"null", "object", "doc"}
    /\ (readJson(fs, profilesConfig).k = "null") => (loadProfilesConfig(fs) = DefaultConfig)
    /\ (last.op \in {"list", "create", "remove"} /\ last.err = "TypeError")
           => loadProfilesConfig(fs) = ObjectJson


----------------------------------------------------------------------------
(* C15 *)

\* the entries of the profile directory of id that are symbolic links, each
\* with its destination
LinkSet(f, id) ==
    {<<p, f[p].to>> : p \in {q \in DOMAIN f : IsPrefix(getProfilePath(id), q) /\ f[q].kind = "link"}}

\* C15: createLinks(id) is idempotent: in the state a successful call has
\* left, a second call raises no error and leaves the links of the profile
\* directory, names and destinations, as they are.
C15_CreateLinksIdempotent ==
    (last.op = "createLinks" /\ last.err = "none") =>
        LET again == createSymlinks(fs, last.id)
        IN /\ again.err = "none"
           /\ LinkSet(again.fs, last.id) = LinkSet(fs, last.id)

\* a createLinks(id) has succeeded and has left at least two links
C15_Witness ==
    /\ last.op = "createLinks"
    /\ last.err = "none"
    /\ Cardinality(LinkSet(fs, last.id)) >= 2


----------------------------------------------------------------------------
(* C16 *)

\* the targets of the shared items in the profile directory of id
Targets(id) == {TargetOf[id][i] : i \in 1..Len(sharedItems)}

\* a removeLinks(id) step leaves every entry that is no link at a target as
\* it was
NonLinksKept(id) ==
    \A p \in DOMAIN fs :
        (p \notin Targets(id) \/ fs[p].kind # "link") =>
            (p \in DOMAIN fs' /\ fs'[p] = fs[p])

\* C16: after removeLinks(id), every shared item's entry that was a symbolic
\* link is gone, every one that was a regular file or a directory is there
\* unchanged, and no other entry is touched.  Violated: a link whose
\* destination no longer exists is not seen by existsSync and stays.
C16_RemoveLinksOnlyLinks ==
    [][last'.op = "removeLinks" =>
          /\ \A p \in Targets(last'.id) :
                (p \in DOMAIN fs /\ fs[p].kind = "link") => p \notin DOMAIN fs'
          /\ NonLinksKept(last'.id)]_vars

\* what holds: the links that resolve are gone, the dangling ones stay, and
\* everything else is as it was
C16_RemoveLinksResolvingOnly ==
    [][last'.op = "removeLinks" =>
          /\ \A p \in Targets(last'.id) :
                (p \in DOMAIN fs /\ fs[p].kind = "link") =>
                    (p \in DOMAIN fs' <=> ~statOk(fs, p))
          /\ NonLinksKept(last'.id)]_vars


----------------------------------------------------------------------------
(* C17 *)

\* the entry at p is a symbolic link / a symbolic link that resolves
IsLinkAt(f, p) == p \in DOMAIN f /\ f[p].kind = "link"
ResolvesAt(f, p) == IsLinkAt(f, p) /\ statOk(f, p)

\* C17: verifyLinks(id) is true exactly when the entry of every required
\* shared item exists, is a symbolic link and resolves; the optional items
\* have no part in the result.
C17_VerifyRequiredOnly ==
    (last.op = "verifyLinks") =>
        (last.ret <=>
            \A i \in 1..Len(sharedItems) :
                sharedItems[i].required => ResolvesAt(fs, TargetOf[last.id][i]))

\* verifyLinks(id) has returned true for a profile directory in which one
\* optional item is a dangling link or a regular entry and another is absent
C17_Witness ==
    /\ last.op = "verifyLinks"
    /\ last.ret
    /\ \E i \in 1..Len(sharedItems) :
          /\ ~sharedItems[i].required
          /\ TargetOf[last.id][i] \in DOMAIN fs
          /\ ~ResolvesAt(fs, TargetOf[last.id][i])
    /\ \E i \in 1..Len(sharedItems) : TargetOf[last.id][i] \notin DOMAIN fs

----------------------------------------------------------------------------
(* C18 *)

\* C18: getLinkStatus(id) returns one record for every shared item, in
\* which exists tells that the profile directory has an entry of that name,
\* isLink that the entry is a symbolic link, dangling or not, and
\* targetResolves that the link resolves.  Violated: existsSync follows the
\* link, so a dangling link is reported as exists = false, isLink = false.
C18_StatusOfEveryItem ==
    (last.op = "getLinkStatus") =>
        /\ Len(last.ret) = Len(sharedItems)
        /\ \A i \in 1..Len(sharedItems) :
              LET target == TargetOf[last.id][i]
              IN /\ last.ret[i].name = sharedItems[i].name
                 /\ last.ret[i].exists = (target \in DOMAIN fs)
                 /\ last.ret[i].isSymlink = IsLinkAt(fs, target)
                 /\ last.ret[i].targetExists = ResolvesAt(fs, target)

\* what holds: one record per shared item, exact for every entry but a
\* dangling link, which is reported as absent
C18_StatusButDangling ==
    (last.op = "getLinkStatus") =>
        /\ Len(last.ret) = Len(sharedItems)
        /\ \A i \in 1..Len(sharedItems) :
              LET target == TargetOf[last.id][i]
                  dangling == IsLinkAt(fs, target) /\ ~statOk(fs, target)
              IN /\ last.ret[i].name = sharedItems[i].name
                 /\ last.ret[i].exists = (target \in DOMAIN fs /\ ~dangling)
                 /\ last.ret[i].isSymlink = (IsLinkAt(fs, target) /\ ~dangling)
                 /\ last.ret[i].targetExists = ResolvesAt(fs, target)


----------------------------------------------------------------------------
(* C19 *)

ReservedWords == {<<"c", "l", "a", "u", "d", "e">>, <<"d", "e", "f", "a", "u", "l", "t">>,
                  <<"m", "a", "i", "n">>, <<"p", "r", "i", "m", "a", "r", "y">>}

\* the four rules, as the specification words them
RuleNonEmpty(name) == Len(name) > 0
RuleLength(name) == Len(name) <= 32
RulePattern(name) ==
    /\ Len(name) > 0
    /\ name[1] \in Range(lowerLetters)
    /\ \A i \in 2..Len(name) :
          name[i] \in Range(lowerLetters) \/ name[i] \in Range(digitChars) \/ name[i] = "-"
RuleNotReserved(name) == toLowerCase(name) \notin ReservedWords

\* C19: isValid(identifier) is true exactly when the identifier is not
\* empty, has at most 32 characters, starts with a lowercase letter followed
\* by lowercase letters, digits and hyphens only, and is none of claude,
\* default, main, primary.
C19_IsValidExactly ==
    (last.op = "isValid") =>
        (last.ret <=>
            /\ RuleNonEmpty(last.id)
            /\ RuleLength(last.id)
            /\ RulePattern(last.id)
            /\ last.id \notin ReservedWords)

\* an identifier of exactly 32 characters has been accepted
C19_Witness ==
    /\ last.op = "isValid"
    /\ Len(last.id) = 32
    /\ last.ret

----------------------------------------------------------------------------
(* C20 *)

\* the rule a message of explain reports
RuleOf(message) ==
    CASE message.tpl = "Profile name is required" -> "empty"
      [] message.tpl = "Name must be % characters or less" -> "too long"
      [] message.tpl = "Name must start with a lowercase letter" -> "pattern"
      [] message.tpl = "Use only lowercase letters, numbers, and hyphens" -> "pattern"
      [] message.tpl = "\"%\" is a reserved name" -> "reserved"
      [] message.tpl = "null" -> "none"

\* the first rule a string violates, in the order empty, too long, pattern,
\* reserved
FirstViolated(name) ==
    IF ~RuleNonEmpty(name) THEN "empty"
    ELSE IF ~RuleLength(name) THEN "too long"
    ELSE IF ~RulePattern(name) THEN "pattern"
    ELSE IF ~RuleNotReserved(name) THEN "reserved"
    ELSE "none"

\* C20: explain returns the reason of the first violated rule in the order
\* empty, too long, pattern, reserved, and nothing exactly when isValid is
\* true.
C20_ExplainFirstViolated ==
    (last.op = "explain") =>
        /\ RuleOf(last.ret) = FirstViolated(last.id)
        /\ (last.ret = NoMessage) <=> isValidProfileName(last.id)

\* an over-long string with a character outside the pattern has been
\* reported as too long
C20_Witness ==
    /\ last.op = "explain"
    /\ Len(last.id) > 32
    /\ ~RulePattern(last.id)
    /\ RuleOf(last.ret) = "too long"


----------------------------------------------------------------------------
(* C21 *)

\* C21: the InvalidName error of create(id) carries the validator's reason
\* for id, the one explain(id) returns.  Violated: createProfile throws one
\* fixed message for every invalid identifier, whichever rule it violates.
C21_InvalidNameCarriesReason ==
    (last.op = "create" /\ last.err = "InvalidName") =>
        createProfileMessage(last.err, last.id) = getProfileNameError(last.id)


----------------------------------------------------------------------------
(* C22 *)

\* C22: in every state that create and remove calls, successful or failing,
\* lead to, every key of the document's profile mapping is an identifier the
\* validator accepts.
C22_KeysAreValid ==
    \A k \in Range(DocKeys(fs)) : isValidProfileName(k)

\* a create has just added a second key to the document, after calls with
\* invalid identifiers could have added theirs
C22_Witness ==
    /\ last.op = "create"
    /\ last.err = "none"
    /\ Len(DocKeys(fs)) = 2


----------------------------------------------------------------------------
(* C23 *)

\* C23, as stated: the Profile a successful create(id) returns always has
\* isAuthenticated = false.  Violated where a credentials file of an earlier
\* profile of the same name was left behind.
C23_NewProfileNotAuthenticated ==
    (last.op = "create" /\ last.err = "none") => ~last.ret.isAuthenticated

\* C23, amended: the Profile a successful create(id) returns has
\* isAuthenticated = true exactly when the credentials file .claude-<id>.json
\* exists, which it does when an earlier profile of that name left it behind.
C23_AuthenticatedIffCredentials ==
    (last.op = "create" /\ last.err = "none") =>
        (last.ret.isAuthenticated <=>
            getProfileCredentialsPath(last.id) \in DOMAIN fs)

\* a create has succeeded where a credentials file had been left behind
C23_Witness ==
    /\ last.op = "create"
    /\ last.err = "none"
    /\ getProfileCredentialsPath(last.id) \in DOMAIN fs
    /\ last.ret.isAuthenticated


----------------------------------------------------------------------------
(* C24 *)

\* C24: list() returns its profiles newest first: of any two returned
\* profiles, the one created later comes first.
C24_ListNewestFirst ==
    (last.op = "list" /\ last.err = "none") =>
        \A i, j \in 1..Len(last.ret) :
            last.ret[i].createdAt > last.ret[j].createdAt => i < j

\* list() has returned two profiles created at different times
C24_Witness ==
    /\ last.op = "list"
    /\ last.err = "none"
    /\ Len(last.ret) = 2
    /\ last.ret[1].createdAt # last.ret[2].createdAt


----------------------------------------------------------------------------
(* C25 *)

\* the startup file of the shell, and its text (empty when there is none)
RcFile(f) == detectShell(f, shellEnv).rcFile
RcPieces(f) == IF RcFile(f) \in DOMAIN f THEN f[RcFile(f)].content.lines ELSE <<>>

FunctionBased == detectShell(fs, shellEnv).type # "fish"

\* the number of marked blocks in a text: the marker line followed by the
\* line that sources the aliases file
BlockCount(text) ==
    Cardinality({i \in 1..(Len(text) - 2) :
        /\ text[i] = INTEGRATION_MARKER
        /\ text[i + 1] = "\n"
        /\ text[i + 2] = sourceLine})

\* C25: for the function-based families, a setupIntegration() made when the
\* marker is present leaves the startup file unchanged, and after every
\* setupIntegration(), however many came before it, the startup file holds
\* the marked block exactly once.
C25_SetupIdempotent ==
    [][(last'.op = "setup" /\ FunctionBased) =>
          /\ INTEGRATION_MARKER \in Range(RcPieces(fs)) => fs' = fs
          /\ BlockCount(RcPieces(fs')) = 1]_vars

\* setupIntegration() has run on a startup file with text of the user's, and
\* another call would change nothing
C25_Witness ==
    /\ last.op = "setup"
    /\ FunctionBased
    /\ userText \in Range(RcPieces(fs))
    /\ BlockCount(RcPieces(fs)) = 1
    /\ setupShellIntegration(fs, shellEnv) = fs

----------------------------------------------------------------------------
(* C26 *)

\* C26: setupIntegration() is append-only: what the startup file held is an
\* unchanged prefix of what it holds afterwards, and the block added is at
\* the end.  Violated: the previous content is cut back to its last piece
\* that is no white space (trimEnd) before the block is appended, so trailing
\* spaces and empty lines of the user's are rewritten.
C26_SetupAppendOnly ==
    [][(last'.op = "setup") =>
          /\ IsPrefix(RcPieces(fs), RcPieces(fs'))
          /\ (fs' # fs) =>
                SubSeq(RcPieces(fs'), Len(RcPieces(fs')) - 3, Len(RcPieces(fs')))
                    = <<INTEGRATION_MARKER, "\n", sourceLine, "\n">>]_vars

\* what holds: the previous content without its trailing white space is an
\* unchanged prefix, followed by an empty line and the block
C26_SetupAppendsToTrimmed ==
    [][(last'.op = "setup" /\ fs' # fs) =>
          RcPieces(fs') = trimEnd(RcPieces(fs))
              \o <<"\n", "\n", INTEGRATION_MARKER, "\n", sourceLine, "\n">>]_vars

----------------------------------------------------------------------------
(* C27 *)

\* a line holds the marker text or the name of the aliases file
IsOurLine(line) ==
    \E i \in 1..Len(line) :
        line[i] = INTEGRATION_MARKER \/ line[i] \in {sourceLine, userMention}

\* C27: for the function-based families, teardownIntegration() removes from
\* the startup file exactly the lines that hold the marker text or the
\* aliases-file path and keeps the others in their order, the generated
\* artifact is gone, and isIntegrated() is false afterwards.
C27_TeardownRemovesOurLines ==
    [][(last'.op = "teardown" /\ FunctionBased) =>
          /\ (RcFile(fs) \in DOMAIN fs) =>
                RcPieces(fs') =
                    joinLines(SelectSeq(splitLines(RcPieces(fs)), LAMBDA line : ~IsOurLine(line)))
          /\ (RcFile(fs) \notin DOMAIN fs) => (RcFile(fs') \notin DOMAIN fs')
          /\ getAliasesFilePath(fs', shellEnv) \notin DOMAIN fs'
          /\ ~isShellIntegrated(fs', shellEnv)]_vars

\* teardownIntegration() has run on a startup file that held the block amid
\* text of the user's: the text is there, the marker and the artifact are not
C27_Witness ==
    /\ last.op = "teardown"
    /\ FunctionBased
    /\ userText \in Range(RcPieces(fs))
    /\ Len(splitLines(RcPieces(fs))) >= 3
    /\ INTEGRATION_MARKER \notin Range(RcPieces(fs))

----------------------------------------------------------------------------
(* C28 *)

\* C28: for the auto-loading family (fish), isIntegrated() is always true,
\* and neither setupIntegration() nor teardownIntegration() changes the
\* startup file.
C28_FishNeedsNoIntegration ==
    [][(~FunctionBased) =>
          /\ isShellIntegrated(fs, shellEnv)
          /\ (last'.op = "isIntegrated") => last'.ret
          /\ (last'.op \in {"setup", "teardown"}) =>
                NodeAt(fs', RcFile(fs)) = NodeAt(fs, RcFile(fs))]_vars

\* under fish, teardownIntegration() has run and the startup file still
\* holds a line of the user's that names the aliases file
C28_Witness ==
    /\ ~FunctionBased
    /\ last.op = "teardown"
    /\ userMention \in Range(RcPieces(fs))


----------------------------------------------------------------------------
(* C29 *)

\* C29: in interactive mode a create or remove that fails is reported and
\* the main menu is shown again; the process ends only when the user chooses
\* exit or cancels the menu.  Violated: runCreate and runRemove catch the
\* error and call process.exit(1), and the loop itself catches nothing.
C29_LoopSurvivesFailure ==
    [][/\ (last'.op \in {"runCreate", "runRemove"} /\ last'.err # "none")
            => calls'[1].pc = "menu"
       /\ (calls[1].pc = "menu" /\ calls'[1].pc = "exited")
            => last'.op = "exit"]_vars

\* what holds: the loop goes on exactly after a command that ended without
\* an error, and every failure of a command ends the process
C29_FailureEndsProcess ==
    [][(calls[1].pc = "menu" /\ last'.op \in {"runCreate", "runRemove", "runList"}) =>
          (calls'[1].pc = "menu" <=> last'.err = "none")]_vars


----------------------------------------------------------------------------
(* C30 *)

\* the stages of removeProfile, in the order of its code
Stage(pc) ==
    CASE pc \in {"idle", "start"} -> 0
      [] pc \in {"item", "unlink"} -> 1
      [] pc = "rmdir" -> 2
      [] pc \in {"credentials", "rmcredentials"} -> 3
      [] pc \in {"load", "write"} -> 4
      [] pc = "done" -> 5

\* what a step took away
DetachesLink(id) ==
    \E i \in 1..Len(sharedItems) :
        /\ TargetOf[id][i] \in DOMAIN fs
        /\ isSymbolicLink(fs, TargetOf[id][i])
        /\ TargetOf[id][i] \notin DOMAIN fs'
        /\ getProfilePath(id) \in DOMAIN fs'
DeletesDirectory(id) ==
    getProfilePath(id) \in DOMAIN fs /\ getProfilePath(id) \notin DOMAIN fs'
DeletesCredentials(id) ==
    getProfileCredentialsPath(id) \in DOMAIN fs /\ getProfileCredentialsPath(id) \notin DOMAIN fs'
WritesDocument ==
    profilesConfig \in DOMAIN fs' /\ (profilesConfig \notin DOMAIN fs \/ fs'[profilesConfig] # fs[profilesConfig])

\* C30: within remove(id) the steps happen in a fixed order: the links are
\* detached before the recursive deletion of the private directory starts,
\* the credentials file is deleted after the directory, the entry of the
\* metadata document is removed last; a step that fails ends the call, so
\* that no later step is taken.
C30_RemoveStepsInOrder ==
    [][\A p \in Procs :
         (calls[p].op = "remove" /\ calls'[p] # calls[p]) =>
            LET c == calls[p]
                d == calls'[p]
            IN /\ c.pc # "done"
               /\ Stage(d.pc) >= Stage(c.pc)
               /\ DetachesLink(c.id) => Stage(c.pc) = 1
               /\ DeletesDirectory(c.id) => Stage(c.pc) = 2
               /\ DeletesCredentials(c.id) => Stage(c.pc) = 3
               /\ WritesDocument => (Stage(c.pc) = 4 /\ d.pc = "done")
               /\ d.err # "none" => (d.pc = "done" /\ fs' = fs)]_vars

\* a removal that went through every stage: the directory, the credentials
\* file and the entry are gone
C30_Witness ==
    /\ calls[1].op = "remove" /\ calls[1].id = work
    /\ calls[1].pc = "done" /\ calls[1].err = "none"
    /\ getProfilePath(work) \notin DOMAIN fs
    /\ getProfileCredentialsPath(work) \notin DOMAIN fs
    /\ ~HasKey(loadProfilesConfig(fs).profiles, work)

\* a removal that failed at the document: the directory and the credentials
\* file are gone, the document is as it was
C30_WitnessFailure ==
    /\ calls[1].op = "remove" /\ calls[1].pc = "done" /\ calls[1].err = "TypeError"
    /\ getProfilePath(work) \notin DOMAIN fs
    /\ fs[profilesConfig].content = ObjectJson


----------------------------------------------------------------------------
(* C31 *)

\* what is left of id after a create(id) that failed at the linking stage:
\* the directory is there, a later create(id) fails with AlreadyExists, and
\* remove(id) takes the directory away
OrphanLeft(f, id, now) ==
    /\ existsSync(f, getProfilePath(id))
    /\ createProfile(f, id, now).err = "AlreadyExists"
    /\ ~existsSync(removeProfile(f, id).fs, getProfilePath(id))

\* id has no entry in the Metadata Document and list() does not return it
NotRecorded(f, id) ==
    /\ id \notin Range(DocKeys(f))
    /\ listProfiles(f).err = "none" =>
          \A k \in 1..Len(listProfiles(f).ret) : listProfiles(f).ret[k].name # id

\* C31: a create(id) that fails at the linking stage performs no rollback:
\* the private directory stays on disk with no Metadata Document entry,
\* list() does not return id, a later create(id) fails with AlreadyExists and
\* remove(id) brings id back to the absent state.  Violated: when the
\* document holds a stale entry of id, the directory the failed create
\* leaves brings that entry back, and list() returns id.
C31_FailedCreateLeavesOrphan ==
    (last.op = "create" /\ last.err = "MissingRequiredSharedResource") =>
        (OrphanLeft(fs, last.id, clock) /\ NotRecorded(fs, last.id))

\* what holds: the failed create leaves the directory and writes nothing to
\* the document; id is unrecorded afterwards when it was unrecorded before
C31_FailedCreateWritesNoEntry ==
    [][(last'.op = "create" /\ last'.err = "MissingRequiredSharedResource") =>
          /\ OrphanLeft(fs', last'.id, clock)
          /\ NodeAt(fs', profilesConfig) = NodeAt(fs, profilesConfig)
          /\ last'.id \notin Range(DocKeys(fs)) => NotRecorded(fs', last'.id)]_vars


----------------------------------------------------------------------------
(* C32 *)

\* the i-th link location of id holds an entry that is no link
RegularAt(f, id, i) ==
    TargetOf[id][i] \in DOMAIN f /\ f[TargetOf[id][i]].kind # "link"

\* a step has put a link to the i-th shared source in the place of the
\* entry, and of everything below it
ReplacedByLink(id, i) ==
    \A p \in DOMAIN fs \cup DOMAIN fs' :
        IsPrefix(TargetOf[id][i], p) =>
            IF p = TargetOf[id][i]
            THEN p \in DOMAIN fs' /\ fs'[p] = LinkNode(SourceOf[i])
            ELSE p \notin DOMAIN fs'

\* a step has left the entry at the i-th link location, and everything
\* below it, as it was
EntryUntouched(id, i) ==
    \A p \in DOMAIN fs \cup DOMAIN fs' :
        IsPrefix(TargetOf[id][i], p) =>
            (p \in DOMAIN fs /\ p \in DOMAIN fs' /\ fs'[p] = fs[p])

----------------------------------------------------------------------------
(* C33 *)

\* the identifiers that have an invocation block in the launcher artifact
Launched(f, env) ==
    LET artifact == getAliasesFilePath(f, env)
    IN IF artifact \in DOMAIN f /\ f[artifact].kind = "file"
       THEN Range(InvocationNames(f[artifact].content.lines))
       ELSE {}

\* the identifiers list() returns; none when it throws
Listed(f) ==
    LET r == listProfiles(f)
    IN IF r.err = "none" THEN {r.ret[k].name : k \in 1..Len(r.ret)} ELSE {}

\* C33: right after syncFromStore() the identifiers that have an invocation
\* block in the launcher artifact are exactly the profiles list() returns,
\* and no launcher function points at a private directory that does not
\* exist.  Violated: syncAliases takes the keys of the document and never
\* looks at the directories.
C33_LauncherMatchesList ==
    last.op = "syncFromStore" =>
        /\ Launched(fs, shellEnv) = Listed(fs)
        /\ \A n \in Launched(fs, shellEnv) : existsSync(fs, getProfilePath(n))

\* what holds: every profile list() returns has an invocation block, and
\* the blocks without a listed profile are those of the document's keys
\* whose directory is gone
C33_LauncherCoversList ==
    last.op = "syncFromStore" =>
        /\ Listed(fs) \subseteq Launched(fs, shellEnv)
        /\ Launched(fs, shellEnv) \ Listed(fs) =
              {n \in Range(DocKeys(fs)) : ~existsSync(fs, getProfilePath(n))}


----------------------------------------------------------------------------
(* C34 *)

\* both processes have run create with the same identifier to its end
SameCreateDone ==
    /\ \A p \in Procs : calls[p].op = "create" /\ calls[p].pc = "done"
    /\ calls[1].id = calls[2].id

\* C34: of two create(id) calls with the same identifier by tool
\* invocations that run at the same time, at most one succeeds and the other
\* fails with AlreadyExists.  Violated: both pass the existence check before
\* either makes the directory, mkdir with recursive accepts the directory
\* of the other, and both go on to the end.
C34_AtMostOneCreates ==
    SameCreateDone =>
        /\ \E p \in Procs : calls[p].err # "none"
        /\ \A p, q \in Procs :
              (p # q /\ calls[p].err = "none") => calls[q].err = "AlreadyExists"

\* what holds: when the second call starts after the first has made the
\* directory, it fails with AlreadyExists
C34_LateCreateFails ==
    [][\A p, q \in Procs :
          (/\ p # q
           /\ calls[p].op = "create" /\ calls[p].pc = "start"
           /\ calls'[p] # calls[p]
           /\ calls[q].op = "create" /\ calls[q].id = calls[p].id
           /\ calls[q].pc \notin {"start", "mkdir"} /\ calls[q].err = "none")
          => calls'[p].err \in {"AlreadyExists", "InvalidName"}]_vars


----------------------------------------------------------------------------
(* C35 *)

\* every key of the Metadata Document has a private directory
NoGhostEntries(f) ==
    \A n \in Range(DocKeys(f)) : existsSync(f, getProfilePath(n))

\* C35: when the operations run one at a time and nothing changes the file
\* system behind the tool, every key of the Metadata Document has an
\* existing private directory in every state between operations.  Violated:
\* remove does not validate its name, and remove("x/../.claude-work")
\* deletes the directory of work and leaves the entry of work.
C35_NoGhostEntries == NoGhostEntries(fs)

\* what holds: every operation other than a remove with an invalid name
\* keeps the document free of ghost entries
C35_ValidNamesKeepNoGhosts ==
    [][(NoGhostEntries(fs) /\ (last'.op = "remove" => isValidProfileName(last'.id)))
          => NoGhostEntries(fs')]_vars


----------------------------------------------------------------------------
(* C36 *)

\* a list of valid identifiers, each once, as the keys of a document are
ValidNameList(L) ==
    /\ L # <<>>
    /\ \A k \in 1..Len(L) : isValidProfileName(L[k])
    /\ \A j, k \in 1..Len(L) : L[j] = L[k] => j = k

\* the names of the invocation functions of the artifact regenerate wrote
Defined(f, env) == InvocationNames(f[getAliasesFilePath(f, env)].content.lines)

\* C36: for every list of identifiers isValid accepts, the function names
\* the generated artifact defines are pairwise distinct: the listing
\* function cc-list is never also the name of an invocation function.
\* Violated: cc-list is a valid identifier, and regenerate(<<cc-list>>)
\* defines cc-list twice, the listing function last.
C36_FunctionNamesDistinct ==
    (last.op = "regenerate" /\ ValidNameList(last.id)) =>
        LET names == Defined(fs, shellEnv)
        IN /\ \A j, k \in 1..Len(names) : names[j] = names[k] => j = k
           /\ cclist \notin Range(names)

\* what holds: the invocation functions are pairwise distinct, and one of
\* them is called cc-list exactly when cc-list is in the list
C36_DistinctButListing ==
    (last.op = "regenerate" /\ ValidNameList(last.id)) =>
        LET names == Defined(fs, shellEnv)
        IN /\ \A j, k \in 1..Len(names) : names[j] = names[k] => j = k
           /\ cclist \in Range(names) <=> cclist \in Range(last.id)


----------------------------------------------------------------------------
(* C37 *)

\* a step was a confirmed `remove name` for a name whose private directory
\* existed
ConfirmedNamedRemove ==
    /\ last'.op = "runRemove"
    /\ last'.ret.named /\ last'.ret.confirmed
    /\ existsSync(fs, getProfilePath(last'.id))

\* the step has removed the directory and left the launcher in step with
\* the document
RemovedAndSynced ==
    /\ last'.err = "none"
    /\ ~existsSync(fs', getProfilePath(last'.id))
    /\ Launched(fs', shellEnv) = Range(DocKeys(fs'))

\* C37: the remove command called with the name of a profile whose private
\* directory exists, and confirmed by the user, removes that directory and
\* then resynchronizes the launcher, also when the directory is an orphan
\* without an entry and list() returns no profiles.  Violated: runRemove
\* returns with "no profiles" when list() is empty, before it looks at the
\* name.
C37_NamedRemoveRemoves ==
    [][ConfirmedNamedRemove => RemovedAndSynced]_vars

\* what holds: the command removes the directory and resynchronizes the
\* launcher when list() returns at least one profile, and changes nothing
\* when list() returns none
C37_NamedRemoveNeedsListedProfile ==
    [][ConfirmedNamedRemove =>
          IF Listed(fs) # {} THEN RemovedAndSynced
          ELSE fs' = fs]_vars


----------------------------------------------------------------------------
(* C38 *)

\* the Metadata Document file holds text that cannot be parsed
Unparseable(f) ==
    /\ profilesConfig \in DOMAIN f
    /\ f[profilesConfig].kind = "file"
    /\ parseThrows(f[profilesConfig].content)

\* nothing but the document stands in the way of create(id)
Creatable(f, id) ==
    /\ isValidProfileName(id)
    /\ ~existsSync(f, getProfilePath(id))
    /\ existsSync(f, mainConfig)
    /\ existsSync(f, SourceOf[1])

\* C38: when the Metadata Document file is unparseable, a create(id) that
\* nothing else stops reports no error and overwrites the file with a
\* document whose profile mapping holds id only; a syncFromStore() that
\* follows leaves an artifact with the invocation block of id only, list()
\* returns id only, and everything else on disk, the private directories of
\* the profiles recorded before among it, stays as it was.
C38_CreateOverUnparseable ==
    [][(last'.op = "create" /\ Unparseable(fs) /\ Creatable(fs, last'.id)) =>
          /\ last'.err = "none"
          /\ DocKeys(fs') = <<last'.id>>
          /\ Launched(syncAliases(fs', shellEnv, clock), shellEnv) = {last'.id}
          /\ Listed(fs') = {last'.id}
          /\ \A p \in DOMAIN fs \ {profilesConfig} :
                p \in DOMAIN fs' /\ fs'[p] = fs[p]]_vars

\* a create has succeeded and the document holds its identifier only, while
\* the private directory of another profile is on disk
C38_Witness ==
    /\ last.op = "create" /\ last.err = "none"
    /\ DocKeys(fs) = <<last.id>>
    /\ \E n \in RaceNames \ {last.id} : existsSync(fs, getProfilePath(n))

----------------------------------------------------------------------------
(* C39 *)

\* C39: the remove command changes nothing unless the user confirms: when
\* the selection is cancelled, or the confirmation is declined or cancelled,
\* no directory, link, credentials file, Metadata Document entry or launcher
\* artifact is modified.
C39_UnconfirmedRemoveChangesNothing ==
    [][(last'.op = "runRemove" /\ (last'.id = Cancelled \/ ~last'.ret.confirmed))
          => fs' = fs]_vars

\* the user has declined to remove a profile that list() returns and whose
\* credentials file exists; the profile is still there
C39_Witness ==
    /\ last.op = "runRemove" /\ ~last.ret.confirmed
    /\ last.id \in Listed(fs)
    /\ getProfileCredentialsPath(last.id) \in DOMAIN fs
    /\ Launched(fs, shellEnv) # {}

====
